---- MODULE Spec2Model ----
(***************************************************************************)
(* Autograder execution engine: language detection, isolated-unit          *)
(* dispatch (interactive worker and server-hosted worker thread), the unit *)
(* runners and the result contract.                                        *)
(***************************************************************************)
EXTENDS Integers, Sequences, FiniteSets, TLC

\* ------------------------------------------------------------------ bounds
\* number of concurrent calls to the public entrypoints
NumCalls == 2

Calls == 1..NumCalls
UnitIds == 1..NumCalls

\* ------------------------------------------------------------- result type
Null == "null"
Lang == {"js", "python", "ocaml"}
ErrorKind == {"compile_error", "timeout", "runtime_error", "tests_failed", "bad_language_detection"}

\* types.ts: resultOk
resultOk(output) ==
  [success |-> TRUE, output |-> output, error |-> Null, timeout |-> FALSE]

\* a resultFail that derives success from the timeout flag
resultFailFlagBug(output, error, timeout) ==
  [success |-> ~timeout, output |-> output, error |-> error, timeout |-> timeout]

\* a resultFail whose timeout parameter defaults to true for runtime errors
resultFailTimeoutBug(output, error, timeout) ==
  [success |-> FALSE, output |-> output, error |-> error,
   timeout |-> (timeout \/ error = "runtime_error")]

\* types.ts: resultFail
resultFail(output, error, timeout) ==
  [success |-> FALSE, output |-> output, error |-> error, timeout |-> timeout]

\* index.ts:29, isomorphic-runner.ts:22 and :59: the literal built by the outer timer
OuterTimeoutResult ==
  [success |-> FALSE, output |-> "Timed out", error |-> "timeout", timeout |-> TRUE]

\* js-runner.ts:18, python-runner.ts:19 and :53: the literal built by a runner's catch
RunnerCatchResult ==
  [success |-> FALSE, output |-> "diag", error |-> "runtime_error", timeout |-> FALSE]

\* ------------------------------------------------------- language detection
\* A text is abstracted to the three signals the detector reads from it:
\* the tag of its first code fence, the LANG: header its first non-blank
\* line carries, and the set of languages whose keyword pattern occurs.
NoTag == "none"
FenceTags == {NoTag, "js", "javascript", "node", "nodejs", "py", "python", "ml", "ocaml", "txt"}

tagToLang(tag) ==
  CASE tag \in {"js", "javascript", "node", "nodejs"} -> "js"
    [] tag \in {"py", "python"} -> "python"
    [] tag \in {"ml", "ocaml"} -> "ocaml"
    [] OTHER -> Null

fenceLang(s) == tagToLang(s.fence)

headerLang(s) ==
  CASE s.header = "js" -> "js"
    [] s.header = "python" -> "python"
    [] s.header = "ocaml" -> "ocaml"
    [] OTHER -> Null

heuristicLang(s) ==
  IF "js" \in s.heur THEN "js"
  ELSE IF "python" \in s.heur THEN "python"
  ELSE IF "ocaml" \in s.heur THEN "ocaml"
  ELSE Null

\* a ?? b
Coalesce(a, b) == IF a # Null THEN a ELSE b

\* a detector in which the solution wins over the tests
detectLanguageRawSolutionFirst(solution, tests) ==
  LET sol3 == Coalesce(Coalesce(fenceLang(solution), headerLang(solution)),
                       heuristicLang(solution))
      tst3 == Coalesce(Coalesce(fenceLang(tests), headerLang(tests)),
                       heuristicLang(tests))
  IN  IF sol3 # Null THEN sol3
      ELSE IF tst3 # Null THEN tst3
      ELSE Null

\* a detector in which the header comment wins over the code fence
detectLanguageRawHeaderFirst(solution, tests) ==
  LET sol2 == Coalesce(headerLang(solution), fenceLang(solution))
      tst2 == Coalesce(headerLang(tests), fenceLang(tests))
      sol3 == Coalesce(sol2, heuristicLang(solution))
      tst3 == Coalesce(tst2, heuristicLang(tests))
  IN  IF tst3 # Null THEN tst3
      ELSE IF sol3 # Null THEN sol3
      ELSE Null

detectLanguageRaw(solution, tests) ==
  LET sol1 == fenceLang(solution)
      tst1 == fenceLang(tests)
      sol2 == Coalesce(sol1, headerLang(solution))
      tst2 == Coalesce(tst1, headerLang(tests))
      sol3 == Coalesce(sol2, heuristicLang(solution))
      tst3 == Coalesce(tst2, heuristicLang(tests))
  IN  IF tst3 # Null THEN tst3
      ELSE IF sol3 # Null THEN sol3
      ELSE Null

\* The union Language | RunResult: typeof is carried by the tag.
AsLang(l) == [typeof |-> "string", val |-> l]
AsResult(r) == [typeof |-> "object", val |-> r]

\* a detector that falls back to a default language
detectLanguageOrDefault(solution, tests) ==
  LET lang == detectLanguageRaw(solution, tests)
  IN  IF lang = Null THEN AsLang("js") ELSE AsLang(lang)

detectLanguageOrError(solution, tests) ==
  LET lang == detectLanguageRaw(solution, tests)
  IN  IF lang = Null
      THEN AsResult(resultFail("Language detection failed", "bad_language_detection", FALSE))
      ELSE AsLang(lang)

\* a detector that looks at the texts first and at the language field last
detectLanguageDetectFirst(req) ==
  LET lang == detectLanguageRaw(req.solution, req.tests)
  IN  IF lang # Null THEN AsLang(lang)
      ELSE IF req.language # Null THEN AsLang(req.language)
      ELSE detectLanguageOrError(req.solution, req.tests)

detectLanguage(req) ==
  IF req.language # Null THEN AsLang(req.language)
  ELSE detectLanguageOrError(req.solution, req.tests)

\* ------------------------------------------------------------ the requests
Plain == [fence |-> NoTag, header |-> Null, heur |-> {}]

\* the requests the callers of the model submit
Requests ==
  { [solution |-> Plain, tests |-> Plain, language |-> "js"],
    [solution |-> Plain, tests |-> [Plain EXCEPT !.header = "python"], language |-> Null],
    [solution |-> [Plain EXCEPT !.fence = "ml"], tests |-> Plain, language |-> Null],
    [solution |-> Plain, tests |-> Plain, language |-> Null] }

\* ------------------------------------------------- what a harness can return
\* Output texts are abstracted to what they are made of: "report" (the test
\* report), "diag" (captured diagnostics or a stack), "notice" (a fixed
\* message of the harness).

\* js-harness.ts: the return statements of runJsHarness (lines 116, 132, 135
\* and 142, the last with either tag)
JsHarnessResults ==
  { resultFail("notice", "timeout", TRUE),
    resultOk("report"),
    resultFail("report", "tests_failed", FALSE),
    resultFail("diag", "compile_error", FALSE),
    resultFail("diag", "runtime_error", FALSE) }

\* python-harness.ts: the return statements of runPythonPyodide after boot
\* (lines 57, 75, 78, 80, 84, 91, 93, 101, 102 and 104)
PythonHarnessResults ==
  { resultFail("notice", "runtime_error", FALSE),
    resultFail("notice", "timeout", TRUE),
    resultFail("diag", "compile_error", FALSE),
    resultFail("diag", "runtime_error", FALSE),
    resultFail("diag", "tests_failed", FALSE),
    resultOk("report"),
    resultFail("report", "tests_failed", FALSE) }

\* ocaml-harness.ts: the return statements of runOcamlWasm after boot
\* (lines 46, 64, 71, 82, 91, 94, 95, 98 and 100)
OcamlHarnessResults ==
  { resultFail("notice", "runtime_error", FALSE),
    resultFail("diag", "compile_error", FALSE),
    resultFail("diag", "runtime_error", FALSE),
    resultOk("report"),
    resultFail("report", "tests_failed", FALSE),
    resultFail("notice", "timeout", TRUE) }

\* python-harness.ts:46 and ocaml-harness.ts:38: the runtime failed to boot
BootFailResult(lang) == resultFail("notice", "runtime_error", FALSE)

HarnessResults(lang) ==
  CASE lang = "js" -> JsHarnessResults
    [] lang = "python" -> PythonHarnessResults
    [] OTHER -> OcamlHarnessResults

\* runPythonPyodide can reject (setStdout/setStderr sit outside its try
\* blocks); runJsHarness and runOcamlWasm catch everything they run.
HarnessCanThrow(lang) == lang = "python"

\* ---------------------------------------------------------------- the state
VARIABLES
  pc,       \* per call: where the entrypoint is
  variant,  \* per call: which entrypoint was called
  req,      \* per call: the request it was given (<<>> before the call)
  worker,   \* per call: the unit the dispatcher holds (0: none)
  timer,    \* per call: the outer timer
  promise,  \* per call: the promise handed to the caller
  units,    \* per unit: the isolated execution unit
  chan,     \* per unit: what is in flight from the unit to its dispatcher
  created,  \* how many units have been created so far
  call,     \* a library function called on its own: its name and arguments
  ret,      \* what that call returned (<<>> until it returns)
  h         \* a harness run followed on its own, step by step

vars == <<pc, variant, req, worker, timer, promise, units, chan, created, call, ret, h>>

\* the state of the dispatcher and its units
dispatchVars == <<pc, variant, req, worker, timer, promise, units, chan, created>>
\* the state of the library calls and harness runs followed on their own
libraryVars == <<call, ret, h>>

NoUnit == [kind |-> "none", terminated |-> FALSE, stage |-> "none", lang |-> Null,
           netOff |-> FALSE, inbox |-> <<>>, got |-> 0, caught |-> FALSE,
           payload |-> <<>>, sent |-> <<>>]
NoChan == [out |-> <<>>, err |-> "none"]
\* by: which code path settled the promise; attempts: calls of resolve so far
Pending == [state |-> "pending", value |-> <<>>, by |-> "none", attempts |-> 0]

\* no library call and no harness run is being followed
NoCall == [fn |-> "none"]
NoRun == [lang |-> Null]
LibraryIdle ==
  /\ call = NoCall
  /\ ret = <<>>
  /\ h = NoRun

\* no call was made and no unit exists
DispatcherIdle ==
  /\ pc = [c \in Calls |-> "idle"]
  /\ variant = [c \in Calls |-> "none"]
  /\ req = [c \in Calls |-> <<>>]
  /\ worker = [c \in Calls |-> 0]
  /\ timer = [c \in Calls |-> "unset"]
  /\ promise = [c \in Calls |-> Pending]
  /\ units = [u \in UnitIds |-> NoUnit]
  /\ chan = [u \in UnitIds |-> NoChan]
  /\ created = 0

Init ==
  /\ DispatcherIdle
  /\ LibraryIdle

\* ------------------------------------------------------ platform primitives
\* resolve(v) of a promise: only the first call settles it
Resolve(p, v, who) ==
  IF p.state = "pending"
  THEN [state |-> "fulfilled", value |-> <<v>>, by |-> who, attempts |-> p.attempts + 1]
  ELSE [p EXCEPT !.attempts = p.attempts + 1]

\* a throw inside an async function or a promise executor
Reject(p) ==
  IF p.state = "pending" THEN [p EXCEPT !.state = "rejected", !.by = "throw"] ELSE p

\* clearTimeout(timer)
ClearTimeout(t) == IF t = "armed" THEN "cleared" ELSE t

\* which runner script the dispatcher starts
RunnerKind(v, lang) ==
  IF v = "serverless" THEN "serverless-runner"
  ELSE CASE lang = "js" -> "js-runner"
         [] lang = "python" -> "python-runner"
         [] OTHER -> "ocaml-runner"

IsNode(u) == units[u].kind = "serverless-runner"

\* worker.terminate(): the unit stops.  A dedicated worker's port message
\* queue is emptied with it; a worker thread's messages already posted are
\* still drained to the parent.
TerminatedUnit(r) == [r EXCEPT !.terminated = TRUE]
TerminatedChan(u, ch) ==
  IF IsNode(u) THEN ch
  ELSE [out |-> <<>>, err |-> IF ch.err = "queued" THEN "none" ELSE ch.err]

\* ------------------------------------------------------------ the dispatcher
\* a dispatcher that keeps one unit and hands it to every call
PooledUnitId == IF created = 0 THEN created + 1 ELSE created

\* new Worker(...): every call makes a unit of its own
FreshUnitId == created + 1

\* the unit as the constructor leaves it, with the 'run' message posted to it
NewUnit(kind, msg) ==
  [kind |-> kind, terminated |-> FALSE, stage |-> "idle", lang |-> Null,
   netOff |-> FALSE, inbox |-> <<msg>>, got |-> 0, caught |-> FALSE,
   payload |-> <<>>, sent |-> <<>>]

\* { kind: 'run', req: { ...req, language: lang, timeoutMs } }
RunMessage(r, lang) == [kind |-> "run", req |-> [r EXCEPT !.language = lang]]

\* the body of the promise executor: create the unit, arm the timer, install
\* the handlers and post the request
Dispatch(c, v, r, lang) ==
  LET u == FreshUnitId IN
  /\ units' = [units EXCEPT ![u] = NewUnit(RunnerKind(v, lang), RunMessage(r, lang))]
  /\ chan' = [chan EXCEPT ![u] = NoChan]
  /\ created' = created + 1
  /\ worker' = [worker EXCEPT ![c] = u]
  /\ timer' = [timer EXCEPT ![c] = "armed"]
  /\ pc' = [pc EXCEPT ![c] = "dispatched"]
  /\ UNCHANGED promise

\* the constructor of the unit throws: the call ends with a rejected promise
CreationThrows(c) ==
  /\ promise' = [promise EXCEPT ![c] = Reject(@)]
  /\ pc' = [pc EXCEPT ![c] = "threw"]
  /\ UNCHANGED <<worker, timer, units, chan, created>>

\* if (typeof langOrErr !== 'string') return langOrErr
ReturnEarly(c, result) ==
  /\ promise' = [promise EXCEPT ![c] = Resolve(@, result, "detect")]
  /\ pc' = [pc EXCEPT ![c] = "returned"]
  /\ UNCHANGED <<worker, timer, units, chan, created>>

\* the synchronous part of an interactive entrypoint
Interactive(c, v) ==
  /\ pc[c] = "idle"
  /\ \E r \in Requests :
       LET langOrErr == detectLanguage(r) IN
       /\ variant' = [variant EXCEPT ![c] = v]
       /\ req' = [req EXCEPT ![c] = <<r>>]
       /\ IF langOrErr.typeof # "string"
          THEN ReturnEarly(c, langOrErr.val)
          ELSE \/ Dispatch(c, v, r, langOrErr.val)
               \/ CreationThrows(c)
  /\ UNCHANGED libraryVars

\* index.ts: runAutograder
RunAutograder(c) == Interactive(c, "interactive")

\* isomorphic-runner.ts: runAutograder
RunAutograderIso(c) == Interactive(c, "iso")

\* isomorphic-runner.ts: runInServerless up to the await of the import
RunInServerless(c) ==
  /\ pc[c] = "idle"
  /\ \E r \in Requests :
       LET langOrErr == detectLanguage(r) IN
       /\ variant' = [variant EXCEPT ![c] = "serverless"]
       /\ req' = [req EXCEPT ![c] = <<r>>]
       /\ IF langOrErr.typeof # "string"
          THEN ReturnEarly(c, langOrErr.val)
          ELSE /\ pc' = [pc EXCEPT ![c] = "importing"]
               /\ UNCHANGED <<worker, timer, promise, units, chan, created>>
  /\ UNCHANGED libraryVars

\* isomorphic-runner.ts: runInServerless after the import
RunInServerlessDispatch(c) ==
  /\ pc[c] = "importing"
  /\ UNCHANGED <<variant, req>>
  /\ \/ Dispatch(c, "serverless", Head(req[c]), detectLanguage(Head(req[c])).val)
     \/ CreationThrows(c)
  /\ UNCHANGED libraryVars

\* the outer timer's callback without its terminate
TimerNoTerminate(c) ==
  /\ timer[c] = "armed"
  /\ timer' = [timer EXCEPT ![c] = "fired"]
  /\ promise' = [promise EXCEPT ![c] = Resolve(@, OuterTimeoutResult, "timer")]
  /\ UNCHANGED <<pc, variant, req, worker, units, chan, created>>
  /\ UNCHANGED libraryVars

\* the outer timer's callback without its resolve
TimerNoResolve(c) ==
  /\ timer[c] = "armed"
  /\ timer' = [timer EXCEPT ![c] = "fired"]
  /\ units' = [units EXCEPT ![worker[c]] = TerminatedUnit(@)]
  /\ chan' = [chan EXCEPT ![worker[c]] = TerminatedChan(worker[c], @)]
  /\ UNCHANGED <<pc, variant, req, worker, promise, created>>
  /\ UNCHANGED libraryVars

\* setTimeout(() => { worker.terminate(); resolve({... 'timeout' ...}) }, timeoutMs)
OuterTimerFires(c) ==
  /\ timer[c] = "armed"
  /\ timer' = [timer EXCEPT ![c] = "fired"]
  /\ units' = [units EXCEPT ![worker[c]] = TerminatedUnit(@)]
  /\ chan' = [chan EXCEPT ![worker[c]] = TerminatedChan(worker[c], @)]
  /\ promise' = [promise EXCEPT ![c] = Resolve(@, OuterTimeoutResult, "timer")]
  /\ UNCHANGED <<pc, variant, req, worker, created>>
  /\ UNCHANGED libraryVars

\* the message handler without its clearTimeout
OnMessageNoClear(c) ==
  /\ worker[c] # 0
  /\ chan[worker[c]].out # <<>>
  /\ LET u == worker[c]
         d == Head(chan[u].out)
         rest == [chan[u] EXCEPT !.out = Tail(@)]
     IN  /\ d.type = "result"
         /\ units' = [units EXCEPT ![u] = TerminatedUnit(@)]
         /\ chan' = [chan EXCEPT ![u] = TerminatedChan(u, rest)]
         /\ promise' = [promise EXCEPT ![c] = Resolve(@, d.payload, "message")]
         /\ UNCHANGED timer
  /\ UNCHANGED <<pc, variant, req, worker, created>>
  /\ UNCHANGED libraryVars

\* the message handler relaying a payload it rebuilt
OnMessageRebuilt(c) ==
  /\ worker[c] # 0
  /\ chan[worker[c]].out # <<>>
  /\ LET u == worker[c]
         d == Head(chan[u].out)
         rest == [chan[u] EXCEPT !.out = Tail(@)]
     IN  /\ d.type = "result"
         /\ timer' = [timer EXCEPT ![c] = ClearTimeout(@)]
         /\ units' = [units EXCEPT ![u] = TerminatedUnit(@)]
         /\ chan' = [chan EXCEPT ![u] = TerminatedChan(u, rest)]
         /\ promise' = [promise EXCEPT ![c] =
                          Resolve(@, [d.payload EXCEPT !.output = "Completed"], "message")]
  /\ UNCHANGED <<pc, variant, req, worker, created>>
  /\ UNCHANGED libraryVars

\* worker.onmessage / w.on('message'): a 'result' message clears the timer,
\* terminates the unit and resolves with the payload
OnMessage(c) ==
  /\ worker[c] # 0
  /\ chan[worker[c]].out # <<>>
  /\ LET u == worker[c]
         d == Head(chan[u].out)
         rest == [chan[u] EXCEPT !.out = Tail(@)]
     IN  IF d.type = "result"
         THEN /\ timer' = [timer EXCEPT ![c] = ClearTimeout(@)]
              /\ units' = [units EXCEPT ![u] = TerminatedUnit(@)]
              /\ chan' = [chan EXCEPT ![u] = TerminatedChan(u, rest)]
              /\ promise' = [promise EXCEPT ![c] = Resolve(@, d.payload, "message")]
         ELSE /\ chan' = [chan EXCEPT ![u] = rest]
              /\ UNCHANGED <<timer, units, promise>>
  /\ UNCHANGED <<pc, variant, req, worker, created>>
  /\ UNCHANGED libraryVars

\* w.on('error'): only the server-hosted dispatcher installs it
OnError(c) ==
  /\ worker[c] # 0
  /\ variant[c] = "serverless"
  /\ chan[worker[c]].err = "queued"
  /\ LET u == worker[c] IN
       /\ timer' = [timer EXCEPT ![c] = ClearTimeout(@)]
       /\ units' = [units EXCEPT ![u] = TerminatedUnit(@)]
       /\ chan' = [chan EXCEPT ![u] = TerminatedChan(u, [@ EXCEPT !.err = "delivered"])]
       /\ promise' = [promise EXCEPT ![c] =
                        Resolve(@, resultFail("diag", "runtime_error", FALSE), "error")]
  /\ UNCHANGED <<pc, variant, req, worker, created>>
  /\ UNCHANGED libraryVars

\* the interactive dispatchers install no error handler: the unit's error
\* event is dispatched to the Worker object and nobody listens
ErrorEventUnhandled(c) ==
  /\ worker[c] # 0
  /\ variant[c] \in {"interactive", "iso"}
  /\ chan[worker[c]].err = "queued"
  /\ chan' = [chan EXCEPT ![worker[c]].err = "delivered"]
  /\ UNCHANGED <<pc, variant, req, worker, timer, promise, units, created>>
  /\ UNCHANGED libraryVars

\* ------------------------------------------------------------------ the unit
\* Stages of a runner's message handler: idle (waiting for the message),
\* boot (runtime bootstrap), lock (about to lock down before the harness runs
\* caller text), user (caller-supplied text is executing), latelock (about to
\* lock down after the harness returned), post (about to post the payload),
\* done, crashed, exited.
Running(u) ==
  /\ ~units[u].terminated
  /\ units[u].stage \notin {"none", "done", "crashed", "exited"}

\* the language a runner works in: fixed by its script, or detected again
\* from the message by the server-hosted runner
RunnerLang(kind, m) ==
  CASE kind = "js-runner" -> AsLang("js")
    [] kind = "python-runner" -> AsLang("python")
    [] kind = "ocaml-runner" -> AsLang("ocaml")
    [] OTHER -> detectLanguage(m.req)

\* js-runner.ts: disableNetworkInWorker() comes first, then runJsHarness
JsRunnerFirst == "lock"
JsRunnerAfterReturn == "post"

\* python-runner.ts (web worker): runPythonPyodide comes first and starts
\* with the bootstrap; disableNetworkInWorker() follows its return
PythonRunnerFirst == "boot"
PythonRunnerAfterBoot == "user"
PythonRunnerAfterReturn == "latelock"

\* python-runner.ts (worker thread): the harness is called at once, no
\* lockdown before or after it; runJsHarness has no bootstrap
ServerlessRunnerFirst(lang) == IF lang = "js" THEN "user" ELSE "boot"
ServerlessRunnerAfterBoot == "user"
ServerlessRunnerAfterReturn == "post"

\* the OCaml web worker: bootstrap, then lockdown, then the harness
OcamlRunnerFirst == "boot"
OcamlRunnerAfterBoot == "lock"
OcamlRunnerAfterReturn == "post"

\* what the handler does first once it has the request
FirstStage(kind, lang) ==
  CASE kind = "js-runner" -> JsRunnerFirst
    [] kind = "python-runner" -> PythonRunnerFirst
    [] kind = "ocaml-runner" -> OcamlRunnerFirst
    [] OTHER -> ServerlessRunnerFirst(lang)

\* what follows a successful bootstrap
AfterBoot(kind) ==
  CASE kind = "python-runner" -> PythonRunnerAfterBoot
    [] kind = "ocaml-runner" -> OcamlRunnerAfterBoot
    [] OTHER -> ServerlessRunnerAfterBoot

\* what follows the harness returning its result
AfterReturn(kind) ==
  CASE kind = "python-runner" -> PythonRunnerAfterReturn
    [] kind = "ocaml-runner" -> OcamlRunnerAfterReturn
    [] kind = "js-runner" -> JsRunnerAfterReturn
    [] OTHER -> ServerlessRunnerAfterReturn

\* the runner's handler takes the message: if (kind !== 'run') return.
\* A 'run' message is taken when no run is in progress; any other message is
\* taken whenever the unit is alive.
UnitReceive(u) ==
  /\ ~units[u].terminated
  /\ units[u].stage \notin {"none", "crashed", "exited"}
  /\ units[u].inbox # <<>>
  /\ Head(units[u].inbox).kind = "run" => units[u].stage \in {"idle", "done"}
  /\ LET m == Head(units[u].inbox)
         langOrErr == RunnerLang(units[u].kind, m)
     IN  units' = [units EXCEPT ![u] =
           IF m.kind # "run"
           THEN [@ EXCEPT !.inbox = Tail(@)]
           ELSE IF langOrErr.typeof # "string"
           THEN [@ EXCEPT !.inbox = Tail(@), !.got = @ + 1, !.caught = FALSE,
                          !.payload = <<langOrErr.val>>, !.stage = "post"]
           ELSE [@ EXCEPT !.inbox = Tail(@), !.got = @ + 1, !.caught = FALSE,
                          !.lang = langOrErr.val,
                          !.stage = FirstStage(units[u].kind, langOrErr.val)]]
  /\ UNCHANGED <<pc, variant, req, worker, timer, promise, chan, created>>
  /\ UNCHANGED libraryVars

\* bootPyodide / bootOcamlPlatform: the runtime is fetched and started
UnitBoot(u) ==
  /\ Running(u)
  /\ units[u].stage = "boot"
  /\ \E ok \in BOOLEAN :
       units' = [units EXCEPT ![u] =
         IF ok
         THEN [@ EXCEPT !.stage = AfterBoot(units[u].kind)]
         ELSE [@ EXCEPT !.payload = <<BootFailResult(units[u].lang)>>,
                        !.stage = AfterReturn(units[u].kind)]]
  /\ UNCHANGED <<pc, variant, req, worker, timer, promise, chan, created>>
  /\ UNCHANGED libraryVars

\* index.ts: disableNetworkInWorker, called by the runner
UnitLockdown(u) ==
  /\ Running(u)
  /\ units[u].stage \in {"lock", "latelock"}
  /\ units' = [units EXCEPT ![u] =
       [@ EXCEPT !.netOff = TRUE,
                 !.stage = IF units[u].stage = "lock" THEN "user" ELSE "post"]]
  /\ UNCHANGED <<pc, variant, req, worker, timer, promise, chan, created>>
  /\ UNCHANGED libraryVars

\* the harness finishes running the caller's text: it returns a result, or
\* it throws and the runner's catch builds the payload
UnitHarnessReturns(u) ==
  /\ Running(u)
  /\ units[u].stage = "user"
  /\ \/ \E r \in HarnessResults(units[u].lang) :
          units' = [units EXCEPT ![u] =
            [@ EXCEPT !.payload = <<r>>, !.stage = AfterReturn(units[u].kind)]]
     \/ /\ HarnessCanThrow(units[u].lang)
        /\ units' = [units EXCEPT ![u] =
             [@ EXCEPT !.payload = <<RunnerCatchResult>>, !.caught = TRUE,
                       !.stage = "post"]]
  /\ UNCHANGED <<pc, variant, req, worker, timer, promise, chan, created>>
  /\ UNCHANGED libraryVars

\* a runner that posts its payload twice
UnitPostTwice(u) ==
  /\ Running(u)
  /\ units[u].stage = "post"
  /\ units' = [units EXCEPT ![u] =
       [@ EXCEPT !.stage = "done", !.sent = units[u].payload, !.payload = <<>>]]
  /\ chan' = [chan EXCEPT ![u].out =
       Append(Append(@, [type |-> "result", payload |-> Head(units[u].payload)]),
              [type |-> "result", payload |-> Head(units[u].payload)])]
  /\ UNCHANGED <<pc, variant, req, worker, timer, promise, created>>
  /\ UNCHANGED libraryVars

\* postMessage({ type: 'result', payload })
UnitPost(u) ==
  /\ Running(u)
  /\ units[u].stage = "post"
  /\ units' = [units EXCEPT ![u] =
       [@ EXCEPT !.stage = "done", !.sent = units[u].payload, !.payload = <<>>]]
  /\ chan' = [chan EXCEPT ![u].out =
       Append(@, [type |-> "result", payload |-> Head(units[u].payload)])]
  /\ UNCHANGED <<pc, variant, req, worker, timer, promise, created>>
  /\ UNCHANGED libraryVars

\* the unit faults (script fails to load, uncaught exception, crash): an
\* error event is queued for the dispatcher
UnitFault(u) ==
  /\ ~units[u].terminated
  /\ units[u].stage \notin {"none", "crashed", "exited"}
  /\ units' = [units EXCEPT ![u].stage = "crashed"]
  /\ chan' = [chan EXCEPT ![u].err = "queued"]
  /\ UNCHANGED <<pc, variant, req, worker, timer, promise, created>>
  /\ UNCHANGED libraryVars

\* the unit exits on its own without posting anything more
UnitExit(u) ==
  /\ Running(u)
  /\ units' = [units EXCEPT ![u].stage = "exited"]
  /\ UNCHANGED <<pc, variant, req, worker, timer, promise, chan, created>>
  /\ UNCHANGED libraryVars

\* ------------------------------------------------------------ specification
Next ==
  \/ \E c \in Calls : RunAutograder(c)
  \/ \E c \in Calls : RunInServerless(c)
  \/ \E c \in Calls : RunInServerlessDispatch(c)
  \/ \E c \in Calls : OuterTimerFires(c)
  \/ \E c \in Calls : OnMessage(c)
  \/ \E c \in Calls : OnError(c)
  \/ \E c \in Calls : ErrorEventUnhandled(c)
  \/ \E u \in UnitIds : UnitReceive(u)
  \/ \E u \in UnitIds : UnitBoot(u)
  \/ \E u \in UnitIds : UnitLockdown(u)
  \/ \E u \in UnitIds : UnitHarnessReturns(u)
  \/ \E u \in UnitIds : UnitPost(u)
  \/ \E u \in UnitIds : UnitFault(u)
  \/ \E u \in UnitIds : UnitExit(u)

\* concurrent calls to index.ts's runAutograder and to runInServerless
Spec == Init /\ [][Next]_vars

\* One call to any of the three entrypoints followed on its own (calls share
\* no state), assuming only that an armed timer eventually fires.
NextSolo ==
  \/ RunAutograder(1)
  \/ RunAutograderIso(1)
  \/ RunInServerless(1)
  \/ RunInServerlessDispatch(1)
  \/ OuterTimerFires(1)
  \/ OnMessage(1)
  \/ OnError(1)
  \/ ErrorEventUnhandled(1)
  \/ UnitReceive(1)
  \/ UnitBoot(1)
  \/ UnitLockdown(1)
  \/ UnitHarnessReturns(1)
  \/ UnitPost(1)
  \/ UnitFault(1)
  \/ UnitExit(1)

FairSolo ==
  /\ Init
  /\ [][NextSolo]_vars
  /\ WF_vars(OuterTimerFires(1))

\* ------------------------------------------------- a runner on its own
\* One unit and the messages it is sent, whoever sends them: at most MaxInbox
\* messages, each a 'run' message or a message of another kind.
MaxInbox == 2

RunnerKinds == {"js-runner", "python-runner", "ocaml-runner", "serverless-runner"}

\* a message whose kind is not 'run'
OtherMessage == [kind |-> "ping"]

RunnerMessages ==
  {OtherMessage} \cup { [kind |-> "run", req |-> r] : r \in Requests }

RunnerInboxes ==
  UNION { [1..n -> RunnerMessages] : n \in 0..MaxInbox }

RunnerInit ==
  /\ pc = [c \in Calls |-> "idle"]
  /\ variant = [c \in Calls |-> "none"]
  /\ req = [c \in Calls |-> <<>>]
  /\ worker = [c \in Calls |-> 0]
  /\ timer = [c \in Calls |-> "unset"]
  /\ promise = [c \in Calls |-> Pending]
  /\ \E k \in RunnerKinds, inbox \in RunnerInboxes :
       units = [u \in UnitIds |->
                  IF u = 1 THEN [NoUnit EXCEPT !.kind = k, !.stage = "idle", !.inbox = inbox]
                  ELSE NoUnit]
  /\ chan = [u \in UnitIds |-> NoChan]
  /\ created = 1
  /\ LibraryIdle

RunnerNext ==
  \/ UnitReceive(1)
  \/ UnitBoot(1)
  \/ UnitLockdown(1)
  \/ UnitHarnessReturns(1)
  \/ UnitPost(1)

\* The unit is left to run (nobody terminates it, the platform does not
\* fail) and every step of its handler is eventually taken: the harness
\* returns or throws.
FairRunner ==
  /\ RunnerInit
  /\ [][RunnerNext]_vars
  /\ WF_vars(UnitReceive(1))
  /\ WF_vars(UnitBoot(1))
  /\ WF_vars(UnitLockdown(1))
  /\ WF_vars(UnitHarnessReturns(1))
  /\ WF_vars(UnitPost(1))

\* ------------------------------------------- detectLanguage on its own
\* every text, as the signals the detector reads in it
Texts == [fence : FenceTags, header : Lang \cup {Null}, heur : SUBSET Lang]

DetectRequests == [solution : Texts, tests : Texts, language : Lang \cup {Null}]

DetectInit ==
  /\ DispatcherIdle
  /\ call \in { [fn |-> "detectLanguage", req |-> r] : r \in DetectRequests }
  /\ ret = <<>>
  /\ h = NoRun

\* detectLanguage(req) is called and returns
DetectLanguageCall ==
  /\ call.fn = "detectLanguage"
  /\ ret = <<>>
  /\ ret' = <<detectLanguage(call.req)>>
  /\ UNCHANGED <<call, h>>
  /\ UNCHANGED dispatchVars

DetectNext == DetectLanguageCall

DetectSpec == DetectInit /\ [][DetectNext]_vars

\* --------------------------------------------- the harnesses on their own
\* A harness run followed step by step.  The caller's texts are given by what
\* they do when loaded and run; time is abstract: a timer's delay may elapse
\* at any moment once it is armed, and its callback runs only while the
\* harness is suspended at an await.
HarnessVarsOnly ==
  /\ UNCHANGED <<call, ret>>
  /\ UNCHANGED dispatchVars

\* ------------------------------------------------------------ js-harness.ts
\* what evaluating a text does: it loads, it does not parse, it throws, it
\* requires a path no loader knows, or it requires './tests'
JsLoads == {"ok", "SyntaxError", "throws", "unknown-require", "requires-tests"}

\* what a registered test does when called: returns, throws, returns a
\* promise that resolves, that rejects, or that never settles
TestKinds == {"pass", "throw", "resolve", "reject", "hang"}

MaxTests == 2

\* Time is counted in ticks from the moment the run's timer is armed.
\* timeoutMs, in ticks
TimeoutTicks == 2
\* the last tick followed
MaxTime == 4

\* fixtures/js.ts: JS_SOLUTION_OK with JS_TESTS_OK, and with JS_TESTS_FAIL
JsFixtureOk == [solution |-> "ok", tests |-> "ok", registered |-> <<"pass", "pass">>,
                exports |-> {"add", "sum"}]
JsFixtureFail == [solution |-> "ok", tests |-> "ok", registered |-> <<"throw">>,
                  exports |-> {"add", "sum"}]

\* the names a solution can put on module.exports
ExportNames == {"add", "sum"}
\* the names of buildHarnessApi that runJsHarness makes global
ApiNames == {"describe", "test", "it", "expect"}

\* exports: the own enumerable keys of module.exports once the solution has
\* loaded
JsInputs ==
  { [solution |-> a, tests |-> b, registered |-> t, exports |-> x] :
      a \in JsLoads, b \in JsLoads,
      t \in UNION { [1..n -> TestKinds] : n \in 0..MaxTests },
      x \in SUBSET ExportNames }
  \cup {JsFixtureOk, JsFixtureFail}

\* globals: the properties of globalThis written by the run
JsStart(in) ==
  [lang |-> "js", pc |-> "loadSolution", in |-> in, i |-> 1, results |-> <<>>,
   timer |-> "unset", timedOut |-> FALSE, result |-> <<>>,
   now |-> 0, race |-> <<>>, globals |-> {}]

\* finally { delete globalThis.describe; ... test; ... it; ... expect; }
JsFinally(r) == [r EXCEPT !.globals = @ \ ApiNames]

\* an exception: err.name and the text of its message
Err(name, message) == [name |-> name, message |-> message]

\* the require given to the solution: what it throws for the path p
requireOnlySolution(p) ==
  CASE p \in {"./solution", "./solution.js"} -> <<>>
    [] p \in {"./tests", "./tests.js"} -> <<Err("Error", "Tests cannot be required directly")>>
    [] OTHER -> <<Err("Error", "Unknown require path")>>

\* the require given to the tests: what it throws for the path p
testRequire(p) ==
  IF p \in {"./solution", "./solution.js"} THEN <<>>
  ELSE <<Err("Error", "Unknown require path")>>

\* evalCJS(filename, source, requireFn, sandbox): what evaluating the text
\* throws; the solution is given requireOnlySolution, the tests testRequire
evalCJS(filename, load) ==
  LET requireFn(p) == IF filename = "/js/solution.js" THEN requireOnlySolution(p)
                      ELSE testRequire(p)
  IN
  CASE load = "ok" -> <<>>
    [] load = "SyntaxError" -> <<Err("SyntaxError", "Unexpected token")>>
    [] load = "throws" -> <<Err("Error", "thrown by the text")>>
    [] load = "unknown-require" -> requireFn("./other")
    [] load = "requires-tests" -> requireFn("./tests")

\* the catch of runJsHarness: isCompile ? 'compile_error' : 'runtime_error'
JsCatchResult(err) ==
  IF err.name = "SyntaxError" \/ err.message = "Unknown require path"
  THEN resultFail("diag", "compile_error", FALSE)
  ELSE resultFail("diag", "runtime_error", FALSE)

\* evalCJS('/js/solution.js', ...) and Object.assign(globalThis, ...)
JsLoadSolution ==
  /\ h.lang = "js" /\ h.pc = "loadSolution"
  /\ LET thrown == evalCJS("/js/solution.js", h.in.solution)
     IN  h' = IF thrown = <<>>
              THEN [h EXCEPT !.pc = "loadTests", !.globals = @ \cup h.in.exports]
              ELSE JsFinally([h EXCEPT !.pc = "done",
                                       !.result = <<JsCatchResult(thrown[1])>>])
  /\ HarnessVarsOnly

\* globalThis.describe = describe, and test, it, expect; then
\* evalCJS('/js/tests.js', ...), then the run's timer is armed
JsLoadTests ==
  /\ h.lang = "js" /\ h.pc = "loadTests"
  /\ LET thrown == evalCJS("/js/tests.js", h.in.tests)
         g == [h EXCEPT !.globals = @ \cup ApiNames]
     IN  h' = IF thrown = <<>>
              THEN [g EXCEPT !.pc = "loop", !.timer = "armed"]
              ELSE JsFinally([g EXCEPT !.pc = "done",
                                       !.result = <<JsCatchResult(thrown[1])>>])
  /\ HarnessVarsOnly

\* the run's timer at time now: its delay has passed once now reaches
\* timeoutMs
Due(t, now) == IF t = "armed" /\ now >= TimeoutTicks THEN "due" ELSE t

\* the delay of the timer of the race has passed
RaceDue == h.race # <<>> /\ h.now >= h.race[1]

\* time passes while the harness is suspended at the await; a callback whose
\* delay has passed runs before more time passes
JsTimePasses ==
  /\ h.lang = "js" /\ h.pc = "await"
  /\ h.now < MaxTime
  /\ h.timer # "due"
  /\ ~(RaceDue /\ h.timer = "fired")
  /\ h' = [h EXCEPT !.now = @ + 1, !.timer = Due(@, h.now + 1)]
  /\ HarnessVarsOnly

\* setTimeout(() => { timedOut = true; }, timeoutMs): the callback runs
JsTimerFires ==
  /\ h.lang = "js" /\ h.pc = "await"
  /\ h.timer = "due"
  /\ h' = [h EXCEPT !.timer = "fired", !.timedOut = TRUE]
  /\ HarnessVarsOnly

\* a loop that records a throwing test as passed
JsRunTestLenient ==
  /\ h.lang = "js" /\ h.pc = "loop"
  /\ h.i <= Len(h.in.registered)
  /\ ~h.timedOut
  /\ \E d \in 0..(MaxTime - h.now) :
       LET ran == [h EXCEPT !.now = @ + d, !.timer = Due(@, h.now + d)]
       IN  h' = CASE h.in.registered[h.i] \in {"pass", "throw"} ->
                       [ran EXCEPT !.results = Append(@, TRUE), !.i = @ + 1]
                  [] OTHER ->
                       [ran EXCEPT !.pc = "await", !.race = <<ran.now + TimeoutTicks>>]
  /\ HarnessVarsOnly

\* one turn of the loop: if (timedOut) break; t.fn() runs for d ticks and
\* returns, throws or returns a promise, which the loop awaits in a race
\* with a timer of timeoutMs armed at that moment
JsRunTest ==
  /\ h.lang = "js" /\ h.pc = "loop"
  /\ h.i <= Len(h.in.registered)
  /\ ~h.timedOut
  /\ \E d \in 0..(MaxTime - h.now) :
       LET ran == [h EXCEPT !.now = @ + d, !.timer = Due(@, h.now + d)]
       IN  h' = CASE h.in.registered[h.i] = "pass" ->
                       [ran EXCEPT !.results = Append(@, TRUE), !.i = @ + 1]
                  [] h.in.registered[h.i] = "throw" ->
                       [ran EXCEPT !.results = Append(@, FALSE), !.i = @ + 1]
                  [] OTHER ->
                       [ran EXCEPT !.pc = "await", !.race = <<ran.now + TimeoutTicks>>]
  /\ HarnessVarsOnly

\* the promise of the test settles first in the race; the timer of the race
\* stays armed and later rejects a race that is settled
JsTestSettles ==
  /\ h.lang = "js" /\ h.pc = "await"
  /\ h.in.registered[h.i] \in {"resolve", "reject"}
  /\ h' = [h EXCEPT !.results = Append(@, h.in.registered[h.i] = "resolve"),
                    !.i = @ + 1, !.pc = "loop", !.race = <<>>]
  /\ HarnessVarsOnly

\* the timer of the race rejects first: it was armed after the run's timer
\* with the same delay, so it runs after it
JsTestTimerFires ==
  /\ h.lang = "js" /\ h.pc = "await"
  /\ h.timer = "fired"
  /\ RaceDue
  /\ h' = [h EXCEPT !.results = Append(@, FALSE), !.i = @ + 1, !.pc = "loop",
                    !.race = <<>>]
  /\ HarnessVarsOnly

JsFailed(results) == { k \in 1..Len(results) : ~results[k] }

\* the loop ends (or breaks): clearTimeout(timer) and the report
JsReport ==
  /\ h.lang = "js" /\ h.pc = "loop"
  /\ h.i > Len(h.in.registered) \/ h.timedOut
  /\ h' = JsFinally([h EXCEPT
            !.pc = "done",
            !.timer = IF @ \in {"armed", "due"} THEN "cleared" ELSE @,
            !.result =
              IF h.timedOut THEN <<resultFail("notice", "timeout", TRUE)>>
              ELSE IF JsFailed(h.results) = {} THEN <<resultOk("report")>>
              ELSE <<resultFail("report", "tests_failed", FALSE)>>])
  /\ HarnessVarsOnly

\* -------------------------------------------------------- python-harness.ts
\* What the caller's Python texts do.  import: what `import solution` does
\* (ok, a syntax error, another Exception, or an exit that is no Exception);
\* token: the solution prints a line holding FAILED, Failure or
\* AssertionError; fake: it prints a sentinel block of its own ("garbage":
\* not JSON, "null": the JSON value null, "clean": a report without failures
\* whose text does not end with a newline); redirects: it replaces
\* sys.stdout; errToken: it writes such a token to sys.stderr; tests: what
\* discovery and the test run do (ran with the given failures and errors, an
\* exit that is no Exception, or they never end).
PyImports == {"ok", "SyntaxError", "raises", "exits"}
PyFakes == {"none", "garbage", "null", "clean"}
PyTests == {"ran", "exits", "hang"}
MaxFailures == 1

PyInputs ==
  { in \in [boot : BOOLEAN, fs : BOOLEAN, import : PyImports, token : BOOLEAN,
            fake : PyFakes, redirects : BOOLEAN, errToken : BOOLEAN,
            tests : PyTests,
            failures : 0..MaxFailures, errors : 0..MaxFailures] :
      \* a text that does not parse executes nothing
      /\ in.import = "SyntaxError" =>
            (~in.token /\ in.fake = "none" /\ ~in.redirects /\ ~in.errToken)
      /\ in.tests # "ran" => (in.failures = 0 /\ in.errors = 0) }

\* the chunks of captured standard output
Chunk(k, f, e) == [k |-> k, failures |-> f, errors |-> e, text |-> ""]

\* the text of the report the driver prints: buf.getvalue() after the run of
\* TextTestRunner, whose last line is OK or FAILED (...) and is terminated
DriverText == "OK\n"
\* the text of a report the solution printed itself
FakeText == "fake"

\* json.dumps(out) between its sentinels
Report(f, e, text) == [Chunk("report", f, e) EXCEPT !.text = text]

PyStart(in) ==
  [lang |-> "python", pc |-> "boot", in |-> in, out |-> <<>>, err |-> {},
   redirected |-> FALSE, phases |-> <<>>, exec |-> "none",
   timer |-> "unset", didTimeout |-> FALSE, text |-> <<>>, result |-> <<>>]

\* py = await bootPyodide(assetsBaseURL)
PyBoot ==
  /\ h.lang = "python" /\ h.pc = "boot"
  /\ h' = IF h.in.boot
          THEN [h EXCEPT !.pc = "fs"]
          ELSE [h EXCEPT !.pc = "done",
                         !.result = <<resultFail("notice", "runtime_error", FALSE)>>]
  /\ HarnessVarsOnly

\* the two files are written, the output is captured, the timer is armed
\* and the driver is started
PyMaterialize ==
  /\ h.lang = "python" /\ h.pc = "fs"
  /\ h' = IF h.in.fs
          THEN [h EXCEPT !.pc = "import", !.exec = "pending", !.timer = "armed"]
          ELSE [h EXCEPT !.pc = "done",
                         !.result = <<resultFail("notice", "runtime_error", FALSE)>>]
  /\ HarnessVarsOnly

\* what the solution wrote to standard output while it was imported
PyPrinted(in) ==
  (IF in.token THEN <<Chunk("token", 0, 0)>> ELSE <<>>)
  \o (CASE in.fake = "garbage" -> <<Chunk("garbage", 0, 0)>>
        [] in.fake = "null" -> <<Chunk("null", 0, 0)>>
        [] in.fake = "clean" -> <<Report(0, 0, FakeText)>>
        [] OTHER -> <<>>)

\* print(...) of the driver: it reaches the captured output unless
\* sys.stdout was replaced
PyPrint(r, chunk) == IF r.redirected THEN r.out ELSE Append(r.out, chunk)

\* a driver that goes on to the tests after a failed import
PY_HARNESS_ImportNoRaise ==
  /\ h.lang = "python" /\ h.pc = "import" /\ h.exec = "pending"
  /\ LET g == [h EXCEPT !.out = @ \o PyPrinted(h.in),
                        !.err = IF h.in.errToken THEN {"token"} ELSE {},
                        !.redirected = h.in.redirects,
                        !.phases = Append(@, "import")]
     IN  h' = CASE h.in.import = "ok" -> [g EXCEPT !.pc = "discover"]
                [] h.in.import \in {"SyntaxError", "raises"} ->
                     [g EXCEPT !.out = PyPrint(g, Chunk("IMPORT_ERROR_START", 0, 0)),
                               !.err = g.err \cup
                                         (IF h.in.import = "SyntaxError"
                                          THEN {"SyntaxError"} ELSE {"Traceback"}),
                               !.pc = "discover"]
                [] OTHER -> [g EXCEPT !.exec = "rejected", !.pc = "settled"]
  /\ HarnessVarsOnly

\* PY_HARNESS: try: import solution / except Exception: print the sentinel
\* and the traceback, then raise
PY_HARNESS_Import ==
  /\ h.lang = "python" /\ h.pc = "import" /\ h.exec = "pending"
  /\ LET g == [h EXCEPT !.out = @ \o PyPrinted(h.in),
                        !.err = IF h.in.errToken THEN {"token"} ELSE {},
                        !.redirected = h.in.redirects,
                        !.phases = Append(@, "import")]
     IN  h' = CASE h.in.import = "ok" -> [g EXCEPT !.pc = "discover"]
                [] h.in.import \in {"SyntaxError", "raises"} ->
                     [g EXCEPT !.out = PyPrint(g, Chunk("IMPORT_ERROR_START", 0, 0)),
                               !.err = g.err \cup
                                         (IF h.in.import = "SyntaxError"
                                          THEN {"SyntaxError"} ELSE {"Traceback"}),
                               !.exec = "rejected", !.pc = "settled"]
                [] OTHER -> [g EXCEPT !.exec = "rejected", !.pc = "settled"]
  /\ HarnessVarsOnly

\* PY_HARNESS: loader.discover(...) and TextTestRunner(...).run(suite)
PY_HARNESS_RunTests ==
  /\ h.lang = "python" /\ h.pc = "discover" /\ h.exec = "pending"
  /\ h.in.tests # "hang"
  /\ h' = IF h.in.tests = "ran"
          THEN [h EXCEPT !.phases = @ \o <<"discover", "run">>, !.pc = "report"]
          ELSE [h EXCEPT !.phases = Append(@, "discover"),
                         !.exec = "rejected", !.pc = "settled"]
  /\ HarnessVarsOnly

\* PY_HARNESS: the report is printed between its sentinels; the driver ends
PY_HARNESS_Report ==
  /\ h.lang = "python" /\ h.pc = "report" /\ h.exec = "pending"
  /\ h' = [h EXCEPT !.out = PyPrint(h, Report(h.in.failures, h.in.errors, DriverText)),
                    !.phases = Append(@, "report"),
                    !.exec = "resolved", !.pc = "settled"]
  /\ HarnessVarsOnly

\* setTimeout(() => { didTimeout = true; }, timeoutMs) runs while the driver
\* is suspended
PyTimerFires ==
  /\ h.lang = "python" /\ h.exec = "pending"
  /\ h.timer = "armed"
  /\ h' = [h EXCEPT !.timer = "fired", !.didTimeout = TRUE]
  /\ HarnessVarsOnly

\* the timer of the race rejects with 'timeout' before the driver settles;
\* it was armed after the other timer with the same delay
PyRaceTimerFires ==
  /\ h.lang = "python" /\ h.exec = "pending"
  /\ h.timer = "fired"
  /\ h' = [h EXCEPT !.pc = "done", !.exec = "abandoned",
                    !.result = <<resultFail("notice", "timeout", TRUE)>>]
  /\ HarnessVarsOnly

PyHas(out, k) == \E i \in 1..Len(out) : out[i].k = k

\* out.match(/REPORT_JSON_START\s*([\s\S]*?)\s*REPORT_JSON_END/): the first
\* sentinel block of the output
PyFirstBlock(out) ==
  LET blocks == { i \in 1..Len(out) : out[i].k \in {"report", "garbage", "null"} }
  IN  IF blocks = {} THEN <<>>
      ELSE <<out[CHOOSE i \in blocks : \A j \in blocks : i <= j]>>

\* text.endsWith('\n') over the texts of the model
endsWithNewline(text) == text \in {DriverText, FakeText \o "\n"}

\* a report text returned as it is
Unterminated(text) == text

\* text.endsWith('\n') ? text : text + '\n'
Terminated(text) == IF endsWithNewline(text) THEN text ELSE text \o "\n"

\* const txt = out || err || '': whether the text that is scanned holds
\* FAILED, Failure or AssertionError
PyTxtHasToken(out, err) ==
  IF out # <<>> THEN PyHas(out, "token") ELSE "token" \in err

\* a fallback that does not scan the captured output
PyReportResultNoScan(out, err) ==
  LET m == PyFirstBlock(out) IN
  IF m = <<>>
  THEN resultFail("diag", "runtime_error", FALSE)
  ELSE IF m[1].k \in {"garbage", "null"}
  THEN resultFail("diag", "runtime_error", FALSE)
  ELSE IF m[1].failures = 0 /\ m[1].errors = 0
  THEN resultOk("report")
  ELSE resultFail("report", "tests_failed", FALSE)

\* the rest of runPythonPyodide once the driver has resolved in time
PyReportResult(out, err) ==
  LET m == PyFirstBlock(out) IN
  IF m = <<>>
  THEN IF PyTxtHasToken(out, err)
       THEN resultFail("diag", "tests_failed", FALSE)
       ELSE resultFail("diag", "runtime_error", FALSE)
  ELSE IF m[1].k \in {"garbage", "null"}
  THEN resultFail("diag", "runtime_error", FALSE)
  ELSE IF m[1].failures = 0 /\ m[1].errors = 0
  THEN resultOk("report")
  ELSE resultFail("report", "tests_failed", FALSE)

\* the output of a result made from a report: its text, newline-terminated
PyReportText(out) ==
  LET m == PyFirstBlock(out) IN
  IF m # <<>> /\ m[1].k = "report" THEN <<Terminated(m[1].text)>> ELSE <<>>

\* the catch of the race, for a rejection of the driver
PyCatchResult(out, err) ==
  IF PyHas(out, "IMPORT_ERROR_START") \/ "SyntaxError" \in err
  THEN resultFail("diag", "compile_error", FALSE)
  ELSE resultFail("diag", "runtime_error", FALSE)

\* the await of the race returns or throws: clearTimeout(timer) and the
\* classification
PyClassify ==
  /\ h.lang = "python" /\ h.pc = "settled"
  /\ h' = [h EXCEPT
            !.pc = "done",
            !.timer = IF @ = "armed" THEN "cleared" ELSE @,
            !.result =
              IF h.exec = "rejected" THEN <<PyCatchResult(h.out, h.err)>>
              ELSE IF h.didTimeout THEN <<resultFail("notice", "timeout", TRUE)>>
              ELSE <<PyReportResult(h.out, h.err)>>,
            !.text =
              IF h.exec = "rejected" \/ h.didTimeout THEN <<>>
              ELSE PyReportText(h.out)]
  /\ HarnessVarsOnly

\* --------------------------------------------------------- ocaml-harness.ts
\* The four sub-steps: compile the solution, compile the tests, link, run.
\* A tool step exits with code 0 or not, or ocaml.run rejects, or it never
\* ends.  The test executable passes (code 0), ends with failed tests or
\* crashes (both with a code that is not 0), and what it wrote may hold any of
\* the three report shapes, each with its own counts.
OcamlSteps == 4
OcamlToolOutcomes == {"zero", "nonzero", "rejects", "hang"}
OcamlRunOutcomes == {"passed", "failed", "crashed", "rejects", "hang"}
OcamlShapes == {"FAILED", "OK", "failures"}

OcamlInputs ==
  [boot : BOOLEAN, fs : BOOLEAN,
   tools : [1..(OcamlSteps - 1) -> OcamlToolOutcomes],
   run : OcamlRunOutcomes,
   shapes : SUBSET OcamlShapes,
   failures : 0..MaxFailures, errors : 0..MaxFailures]

OcamlStart(in) ==
  [lang |-> "ocaml", pc |-> "boot", in |-> in, step |-> 0, started |-> <<>>,
   exits |-> <<>>, diag |-> 0, now |-> 0, race |-> <<>>, result |-> <<>>]

\* parseOUnitSummary: the FAILED line, else a bare OK line, else the
\* failures/errors line, else null
parseOUnitSummary(in) ==
  IF "FAILED" \in in.shapes THEN <<[errors |-> in.errors, failures |-> in.failures]>>
  ELSE IF "OK" \in in.shapes THEN <<[errors |-> 0, failures |-> 0]>>
  ELSE IF "failures" \in in.shapes THEN <<[errors |-> in.errors, failures |-> in.failures]>>
  ELSE <<>>

\* ocaml = await bootOcamlPlatform(assetsBaseURL)
OcamlBoot ==
  /\ h.lang = "ocaml" /\ h.pc = "boot"
  /\ h' = IF h.in.boot
          THEN [h EXCEPT !.pc = "fs"]
          ELSE [h EXCEPT !.pc = "done",
                         !.result = <<resultFail("notice", "runtime_error", FALSE)>>]
  /\ HarnessVarsOnly

\* runWithTimeout: ocaml.run(argv) is started and raced against a new timer
\* of the whole timeoutMs
runWithTimeout(r, step) ==
  [r EXCEPT !.step = step, !.started = Append(@, step),
            !.race = <<r.now + TimeoutTicks>>]

\* the two files are written and the first sub-step is started
OcamlMaterialize ==
  /\ h.lang = "ocaml" /\ h.pc = "fs"
  /\ h' = IF h.in.fs
          THEN [runWithTimeout(h, 1) EXCEPT !.pc = "step"]
          ELSE [h EXCEPT !.pc = "done",
                         !.result = <<resultFail("notice", "runtime_error", FALSE)>>]
  /\ HarnessVarsOnly

\* one tick of the clock goes by while a sub-step is running; the timer of
\* its race fires when it is due, so time does not pass beyond that
OcamlTimePasses ==
  /\ h.lang = "ocaml" /\ h.pc = "step"
  /\ h.now < h.race[1]
  /\ h' = [h EXCEPT !.now = @ + 1]
  /\ HarnessVarsOnly

\* a compile or link step goes on to the next step whatever its exit code
OcamlToolStepIgnoresCode ==
  /\ h.lang = "ocaml" /\ h.pc = "step" /\ h.step < OcamlSteps
  /\ h.in.tools[h.step] # "hang"
  /\ h' = CASE h.in.tools[h.step] \in {"zero", "nonzero"} ->
                 [runWithTimeout(h, h.step + 1) EXCEPT
                    !.exits = Append(@, h.in.tools[h.step])]
            [] OTHER ->
                 [h EXCEPT !.pc = "done",
                           !.result = <<resultFail("diag", "runtime_error", FALSE)>>]
  /\ HarnessVarsOnly

\* a compile or link step settles: code 0 starts the next step, another code
\* is a compile_error, a rejection is caught as runtime_error
OcamlToolStep ==
  /\ h.lang = "ocaml" /\ h.pc = "step" /\ h.step < OcamlSteps
  /\ h.in.tools[h.step] # "hang"
  /\ h' = CASE h.in.tools[h.step] = "zero" ->
                 [runWithTimeout(h, h.step + 1) EXCEPT !.exits = Append(@, "zero")]
            [] h.in.tools[h.step] = "nonzero" ->
                 [h EXCEPT !.pc = "done",
                           !.exits = Append(@, "nonzero"),
                           !.diag = h.step,
                           !.result = <<resultFail("diag", "compile_error", FALSE)>>]
            [] OTHER ->
                 [h EXCEPT !.pc = "done",
                           !.result = <<resultFail("diag", "runtime_error", FALSE)>>]
  /\ HarnessVarsOnly

\* a run step that decides by the exit code alone
OcamlRunStepExitCodeOnly ==
  /\ h.lang = "ocaml" /\ h.pc = "step" /\ h.step = OcamlSteps
  /\ h.in.run # "hang"
  /\ LET code0 == h.in.run = "passed"
     IN  h' = [h EXCEPT
               !.pc = "done",
               !.exits = IF h.in.run = "rejects" THEN @
                         ELSE Append(@, IF code0 THEN "zero" ELSE "nonzero"),
               !.result =
                 IF h.in.run = "rejects" THEN <<resultFail("diag", "runtime_error", FALSE)>>
                 ELSE IF code0 THEN <<resultOk("report")>>
                 ELSE <<resultFail("report", "tests_failed", FALSE)>>]
  /\ HarnessVarsOnly

\* the test executable settles and its output is parsed
OcamlRunStep ==
  /\ h.lang = "ocaml" /\ h.pc = "step" /\ h.step = OcamlSteps
  /\ h.in.run # "hang"
  /\ LET parsed == parseOUnitSummary(h.in)
         code0 == h.in.run = "passed"
         success == IF parsed # <<>>
                    THEN parsed[1].errors = 0 /\ parsed[1].failures = 0
                    ELSE code0
     IN  h' = [h EXCEPT
               !.pc = "done",
               !.exits = IF h.in.run = "rejects" THEN @
                         ELSE Append(@, IF code0 THEN "zero" ELSE "nonzero"),
               !.result =
                 IF h.in.run = "rejects" THEN <<resultFail("diag", "runtime_error", FALSE)>>
                 ELSE IF parsed = <<>> /\ ~code0
                 THEN <<resultFail("diag", "runtime_error", FALSE)>>
                 ELSE IF success THEN <<resultOk("report")>>
                 ELSE <<resultFail("report", "tests_failed", FALSE)>>]
  /\ HarnessVarsOnly

\* runWithTimeout: the timer of the running step is due and rejects with
\* 'timeout'
OcamlStepTimerFires ==
  /\ h.lang = "ocaml" /\ h.pc = "step"
  /\ h.now >= h.race[1]
  /\ h' = [h EXCEPT !.pc = "done",
                    !.result = <<resultFail("notice", "timeout", TRUE)>>]
  /\ HarnessVarsOnly

\* ------------------------------------------------------- the three harnesses
HarnessInit ==
  /\ DispatcherIdle
  /\ call = NoCall
  /\ ret = <<>>
  /\ h \in { JsStart(in) : in \in JsInputs }
         \cup { PyStart(in) : in \in PyInputs }
         \cup { OcamlStart(in) : in \in OcamlInputs }

HarnessNext ==
  \/ JsLoadSolution
  \/ JsLoadTests
  \/ JsTimePasses
  \/ JsTimerFires
  \/ JsRunTest
  \/ JsTestSettles
  \/ JsTestTimerFires
  \/ JsReport
  \/ PyBoot
  \/ PyMaterialize
  \/ PY_HARNESS_Import
  \/ PY_HARNESS_RunTests
  \/ PY_HARNESS_Report
  \/ PyTimerFires
  \/ PyRaceTimerFires
  \/ PyClassify
  \/ OcamlBoot
  \/ OcamlMaterialize
  \/ OcamlTimePasses
  \/ OcamlToolStep
  \/ OcamlRunStep
  \/ OcamlStepTimerFires

HarnessSpec == HarnessInit /\ [][HarnessNext]_vars

\* ------------------------------------------------ deep-equal.ts on its own
\* JavaScript values: a primitive is its type and its value, an object is a
\* reference into a heap.  An object of the heap has a class (Array or
\* Object), its own keys in insertion order (the indices for an array) and
\* the values under them.
Prim(t, v) == [t |-> t, v |-> v]
Ref(o) == [t |-> "ref", v |-> o]

NaN == Prim("number", "NaN")
Prims ==
  { Prim("undefined", "undefined"), Prim("null", "null"), NaN,
    Prim("number", "0"), Prim("number", "-0"), Prim("number", "1"),
    Prim("number", "2"), Prim("string", "1") }

\* the values stored inside objects
SlotPrims == { NaN, Prim("number", "1"), Prim("number", "2") }

HeapSize == 2
ObjNames == <<"o1", "o2", "o3", "o4">>
ObjIds == { ObjNames[n] : n \in 1..HeapSize }
Refs == { Ref(o) : o \in ObjIds }
MaxSlots == 2

\* the key names of plain objects, in the order sort() puts them
KeyOrder == <<"a", "b">>
KeyNames == { KeyOrder[i] : i \in 1..Len(KeyOrder) }
\* the index keys of arrays
IndexKeys == <<"0", "1", "2">>

Injective(f) == \A i, j \in DOMAIN f : i # j => f[i] # f[j]

Arrays ==
  UNION { { [class |-> "Array", keys |-> SubSeq(IndexKeys, 1, n), vals |-> vs] :
              vs \in [1..n -> SlotPrims \cup Refs] } : n \in 0..MaxSlots }

PlainObjects ==
  UNION { { [class |-> "Object", keys |-> ks, vals |-> vs] :
              ks \in { f \in [1..n -> KeyNames] : Injective(f) },
              vs \in [1..n -> SlotPrims \cup Refs] } : n \in 0..MaxSlots }

Heaps == [ObjIds -> Arrays \cup PlainObjects]
EmptyHeap == [o \in ObjIds |-> [class |-> "Object", keys |-> <<>>, vals |-> <<>>]]

\* an identity test under which NaN is not itself
IdentityNotNaN(a, b) == a = b /\ a # NaN

\* Object.is(a, b): the same value (NaN is NaN, +0 is not -0), the same object
ObjectIs(a, b) == a = b

\* a === b
StrictEquals(a, b) ==
  IF a.t = "number" /\ b.t = "number"
  THEN /\ a # NaN /\ b # NaN
       /\ \/ a.v = b.v
          \/ {a.v, b.v} = {"0", "-0"}
  ELSE a = b

\* typeof a
TypeOf(a) == IF a.t \in {"ref", "null"} THEN "object" ELSE a.t

\* a == null
IsNullish(a) == a.t \in {"null", "undefined"}

\* an ordering of keys that leaves them as they were inserted
KeysAsInserted(keys) == keys

\* ka.sort() of an array of distinct key names
SortedKeys(keys) ==
  LET all == KeyOrder \o IndexKeys
  IN  SelectSeq(all, LAMBDA k : \E i \in 1..Len(keys) : keys[i] = k)

\* a[k]
GetValue(obj, k) ==
  IF \E i \in 1..Len(obj.keys) : obj.keys[i] = k
  THEN obj.vals[CHOOSE i \in 1..Len(obj.keys) : obj.keys[i] = k]
  ELSE Prim("undefined", "undefined")

\* a length test that lets arrays of any two lengths through
AnyLength(oa, ob) == TRUE

\* a.length !== b.length, negated
SameLength(oa, ob) == Len(oa.vals) = Len(ob.vals)

\* the deepest nesting of calls followed before the stack is taken to be
\* exhausted
MaxDepth == 8

NoSeen == [o \in { ObjNames[n] : n \in 1..Len(ObjNames) } |-> "none"]
Answer(v, seen, calls) == [value |-> v, threw |-> FALSE, seen |-> seen, calls |-> calls]
Overflow(seen, calls) == [value |-> FALSE, threw |-> TRUE, seen |-> seen, calls |-> calls]

RECURSIVE deepEqualIn(_, _, _, _, _)
RECURSIVE deepEqualEach(_, _, _, _, _, _, _)

\* for (...) if (!deepEqual(a[k], b[k], seen)) return false; return true
\* over the keys ks[i..], with the calls made so far
deepEqualEach(heap, oa, ob, ks, i, acc, depth) ==
  IF i > Len(ks) THEN Answer(TRUE, acc.seen, acc.calls)
  ELSE LET r == deepEqualIn(heap, GetValue(oa, ks[i]), GetValue(ob, ks[i]),
                            acc.seen, depth)
           calls == acc.calls + r.calls
       IN  IF r.threw THEN Overflow(r.seen, calls)
           ELSE IF ~r.value THEN Answer(FALSE, r.seen, calls)
           ELSE deepEqualEach(heap, oa, ob, ks, i + 1,
                              [seen |-> r.seen, calls |-> calls], depth)

\* deepEqual(a, b, seen) at the given depth of the stack
deepEqualIn(heap, a, b, seen, depth) ==
  IF depth > MaxDepth THEN Overflow(seen, 1)
  ELSE IF ObjectIs(a, b) THEN Answer(TRUE, seen, 1)
  ELSE IF IsNullish(a) \/ IsNullish(b) THEN Answer(StrictEquals(a, b), seen, 1)
  ELSE IF TypeOf(a) # TypeOf(b) THEN Answer(FALSE, seen, 1)
  ELSE IF TypeOf(a) # "object" THEN Answer(StrictEquals(a, b), seen, 1)
  ELSE IF seen[a.v] = b.v THEN Answer(TRUE, seen, 1)
  ELSE
    LET seen1 == [seen EXCEPT ![a.v] = b.v]
        oa == heap[a.v]
        ob == heap[b.v]
        ka == SortedKeys(oa.keys)
        kb == SortedKeys(ob.keys)
    IN  IF oa.class = "Array" /\ ob.class = "Array"
        THEN IF ~SameLength(oa, ob) THEN Answer(FALSE, seen1, 1)
             ELSE deepEqualEach(heap, oa, ob, oa.keys, 1,
                                [seen |-> seen1, calls |-> 1], depth + 1)
        ELSE IF oa.class = "Array" \/ ob.class = "Array" THEN Answer(FALSE, seen1, 1)
        ELSE IF Len(ka) # Len(kb) THEN Answer(FALSE, seen1, 1)
        ELSE IF ka # kb THEN Answer(FALSE, seen1, 1)
        ELSE deepEqualEach(heap, oa, ob, ka, 1,
                           [seen |-> seen1, calls |-> 1], depth + 1)

\* deepEqual(a, b) with the default seen = new WeakMap()
deepEqual(heap, a, b) == deepEqualIn(heap, a, b, NoSeen, 1)

\* every pair of values over every heap; two primitives need no heap
DeepEqualInit ==
  /\ DispatcherIdle
  /\ \E hp \in Heaps, x \in Prims \cup Refs, y \in Prims \cup Refs :
       /\ (x \in Prims /\ y \in Prims) => hp = EmptyHeap
       /\ call = [fn |-> "deepEqual", heap |-> hp, a |-> x, b |-> y]
  /\ ret = <<>>
  /\ h = NoRun

\* deepEqual(a, b) is called and returns or overflows the stack
DeepEqualCall ==
  /\ call.fn = "deepEqual"
  /\ ret = <<>>
  /\ ret' = <<deepEqual(call.heap, call.a, call.b)>>
  /\ UNCHANGED <<call, h>>
  /\ UNCHANGED dispatchVars

DeepEqualNext == DeepEqualCall

DeepEqualSpec == DeepEqualInit /\ [][DeepEqualNext]_vars

\* deepEqual on graphs of references alone: one object more than HeapSize,
\* each an array of up to MaxSlots references
CycleIds == { ObjNames[n] : n \in 1..(HeapSize + 1) }
CycleHeaps ==
  [CycleIds -> UNION { { [class |-> "Array", keys |-> SubSeq(IndexKeys, 1, n),
                          vals |-> vs] :
                            vs \in [1..n -> { Ref(o) : o \in CycleIds }] } :
                       n \in 0..MaxSlots }]

CycleInit ==
  /\ DispatcherIdle
  /\ \E hp \in CycleHeaps, x \in CycleIds, y \in CycleIds :
       call = [fn |-> "deepEqual", heap |-> hp, a |-> Ref(x), b |-> Ref(y)]
  /\ ret = <<>>
  /\ h = NoRun

CycleSpec == CycleInit /\ [][DeepEqualNext]_vars

\* ------------------------------------------------- utils.ts: the cleaners
\* Source text is a sequence of one-character strings.  code[i] past the end
\* is undefined.
\* the backtick character, which a string of this notation cannot hold
Backtick == "backtick"

At(code, i) == IF i >= 1 /\ i <= Len(code) THEN code[i] ELSE "undefined"

WhiteSpace == {" ", "\t", "\n", "\r", "\f"}

\* line.trim() === ''
IsBlank(line) == \A k \in 1..Len(line) : line[k] \in WhiteSpace

RECURSIVE SplitFrom(_, _, _)
SplitFrom(s, i, cur) ==
  IF i > Len(s) THEN <<cur>>
  ELSE IF s[i] = "\n" THEN <<cur>> \o SplitFrom(s, i + 1, <<>>)
  ELSE SplitFrom(s, i + 1, Append(cur, s[i]))

RECURSIVE TrimEnd(_, _)
\* line.replace(/[ \t]+$/g, '') with the characters of the class in blanks
TrimEnd(line, blanks) ==
  IF line # <<>> /\ line[Len(line)] \in blanks
  THEN TrimEnd(SubSeq(line, 1, Len(line) - 1), blanks)
  ELSE line

RECURSIVE Join(_)
\* lines.join('\n')
Join(lines) ==
  IF lines = <<>> THEN <<>>
  ELSE IF Len(lines) = 1 THEN lines[1]
  ELSE lines[1] \o <<"\n">> \o Join(Tail(lines))

\* split into lines, cut trailing blanks, drop the blank lines, join
Tidy(s, blanks) ==
  LET lines == SplitFrom(s, 1, <<>>)
      cut == [k \in 1..Len(lines) |-> TrimEnd(lines[k], blanks)]
  IN  Join(SelectSeq(cut, LAMBDA l : ~IsBlank(l)))

\* /[=(:,[!&|?{};\n]/.test(lastChar)
RegexPrefix == {"=", "(", ":", ",", "[", "!", "&", "|", "?", "{", "}", ";", "\n"}
\* /[gimsuy]/
RegexFlags == {"g", "i", "m", "s", "u", "y"}

RECURSIVE Backslashes(_, _)
\* the number of backslashes that end code[1..j]
Backslashes(code, j) ==
  IF j >= 1 /\ code[j] = "\\" THEN 1 + Backslashes(code, j - 1) ELSE 0

RECURSIVE TemplateEnd(_, _)
\* the inner loop of the template branch, entered at index i: the index it
\* leaves i at, and whether it found the closing backtick
TemplateEnd(code, i) ==
  IF i > Len(code) THEN [i |-> i, closed |-> FALSE]
  ELSE IF code[i] = Backtick /\ Backslashes(code, i - 1) % 2 = 0
       THEN [i |-> i + 1, closed |-> TRUE]
  ELSE TemplateEnd(code, i + 1)

RECURSIVE FlagsEnd(_, _)
\* while (/[gimsuy]/.test(code[j])) j++: the index the loop stops at, or 0
\* when j runs past the end, where code[j] is undefined, test() reads it as
\* the text 'undefined', which holds a flag letter, and the loop never ends
FlagsEnd(code, j) ==
  IF j > Len(code) THEN 0
  ELSE IF code[j] \in RegexFlags THEN FlagsEnd(code, j + 1)
  ELSE j

JsScanStart ==
  [i |-> 1, result |-> <<>>, lastChar |-> "",
   inSingle |-> FALSE, inDouble |-> FALSE, inTemplate |-> FALSE,
   inRegex |-> FALSE, inBlockComment |-> FALSE, inLineComment |-> FALSE,
   threw |-> FALSE]

\* currChar === q && lastChar !== '\\'
Closes(code, st, q) == code[st.i] = q /\ st.lastChar # "\\"

\* one turn of the while loop of clearJsComments
JsScanStep(code, st) ==
  LET c == code[st.i]
      nx == At(code, st.i + 1)
      skip(n) == [st EXCEPT !.i = @ + n]
      keep == [st EXCEPT !.result = Append(@, c), !.i = @ + 1]
  IN
  IF st.inBlockComment
  THEN IF c = "*" /\ nx = "/" THEN [skip(2) EXCEPT !.inBlockComment = FALSE]
       ELSE skip(1)
  ELSE IF st.inLineComment
  THEN IF c = "\n" THEN [keep EXCEPT !.inLineComment = FALSE] ELSE skip(1)
  ELSE IF ~st.inSingle /\ ~st.inDouble /\ ~st.inTemplate /\ ~st.inRegex
  THEN IF c = "/" /\ nx = "*" THEN [skip(2) EXCEPT !.inBlockComment = TRUE]
       ELSE IF c = "/" /\ nx = "/" THEN [skip(2) EXCEPT !.inLineComment = TRUE]
       ELSE IF c = "\"" THEN [keep EXCEPT !.inDouble = TRUE]
       ELSE IF c = "'" THEN [keep EXCEPT !.inSingle = TRUE]
       ELSE IF c = Backtick
       THEN LET e == TemplateEnd(code, st.i + 1)
            IN  [st EXCEPT !.result = @ \o SubSeq(code, st.i, e.i - 1),
                           !.i = e.i, !.inTemplate = ~e.closed]
       ELSE IF c = "/" /\ (st.lastChar \in RegexPrefix \/ st.result = <<>>)
       THEN [keep EXCEPT !.inRegex = TRUE]
       ELSE [keep EXCEPT !.lastChar = c]
  ELSE IF st.inDouble THEN [keep EXCEPT !.inDouble = ~Closes(code, st, "\"")]
  ELSE IF st.inSingle THEN [keep EXCEPT !.inSingle = ~Closes(code, st, "'")]
  ELSE IF st.inTemplate THEN skip(1)
  ELSE IF Closes(code, st, "/")
       THEN LET j == FlagsEnd(code, st.i + 1)
            IN  IF j = 0 THEN [st EXCEPT !.threw = TRUE]
                ELSE [st EXCEPT !.result = @ \o SubSeq(code, st.i, j - 1),
                                !.i = j, !.inRegex = FALSE]
       ELSE keep

RECURSIVE JsScan(_, _)
\* while (i < code.length) { ... }
JsScan(code, st) ==
  IF st.threw \/ st.i > Len(code) THEN st ELSE JsScan(code, JsScanStep(code, st))

Cleaned(s) == [value |-> s, threw |-> FALSE]
\* the loop that cannot end stops when the string can grow no more
RangeError == [value |-> <<>>, threw |-> TRUE]

clearJsComments(code) ==
  LET st == JsScan(code, JsScanStart)
  IN  IF st.threw THEN RangeError ELSE Cleaned(Tidy(st.result, {" ", "\t"}))

\* pass 1 of clearPythonWithRegexHeuristics on one line: the text from the
\* first # to the end of the line goes, unless the line is a shebang on
\* line 0.  The texts considered hold no quote character, so tryScanString
\* finds no string, and no word coding, so no line is an encoding cookie.
StripHash(line, lineNo) ==
  LET hashes == { k \in 1..Len(line) : line[k] = "#" }
  IN  IF hashes = {} THEN line
      ELSE IF lineNo = 0 /\ At(line, 1) = "#" /\ At(line, 2) = "!" THEN line
      ELSE SubSeq(line, 1, (CHOOSE k \in hashes : \A m \in hashes : k <= m) - 1)

\* clearPythonWithRegexHeuristics(input, { preserveWhitespace: false }) on a
\* text without quote characters: pass 2 finds no docstring, the
\* replacements are those of pass 1, and without any the input is returned
clearPythonWithRegexHeuristics(src) ==
  LET lines == SplitFrom(src, 1, <<>>)
      stripped == [k \in 1..Len(lines) |-> StripHash(lines[k], k - 1)]
  IN  IF stripped = lines THEN src
      ELSE Join([k \in 1..Len(lines) |-> TrimEnd(stripped[k], {" ", "\t", "\f"})])

\* the language argument is not read
clearCommentsAndDocstrings(code, language) ==
  IF code = <<>> \/ IsBlank(code) THEN Cleaned(code)
  ELSE Cleaned(Tidy(clearPythonWithRegexHeuristics(code), {" ", "\t", "\f"}))

MaxCode == 6
JsChars == {"/", "*", "\"", "'", Backtick, "\\", "\n", " ", "i"}
PyChars == {"/", "*", "#", "\n", " ", "i"}
Languages == {"javascript", "python", "undefined"}

CleanInit ==
  /\ DispatcherIdle
  /\ \E n \in 0..MaxCode :
       \/ \E s \in [1..n -> JsChars] : call = [fn |-> "clearJsComments", code |-> s]
       \/ \E s \in [1..n -> PyChars], l \in Languages :
            call = [fn |-> "clearCommentsAndDocstrings", code |-> s, language |-> l]
  /\ ret = <<>>
  /\ h = NoRun

ClearJsCommentsCall ==
  /\ call.fn = "clearJsComments"
  /\ ret = <<>>
  /\ ret' = <<clearJsComments(call.code)>>
  /\ UNCHANGED <<call, h>>
  /\ UNCHANGED dispatchVars

ClearCommentsAndDocstringsCall ==
  /\ call.fn = "clearCommentsAndDocstrings"
  /\ ret = <<>>
  /\ ret' = <<clearCommentsAndDocstrings(call.code, call.language)>>
  /\ UNCHANGED <<call, h>>
  /\ UNCHANGED dispatchVars

CleanNext == ClearJsCommentsCall \/ ClearCommentsAndDocstringsCall

CleanSpec == CleanInit /\ [][CleanNext]_vars

\* ------------------------------------- js-harness.ts: buildHarnessApi
\* The tests text registers suites and tests while it is loaded.  frames are
\* the describe calls in progress, each with the suite stack it found;
\* thrown: an exception is travelling up from a describe callback; caught:
\* the text has caught one.
SuiteNames == {"A", "B"}
TestNames == {"t", "u"}
MaxNesting == 3

\* the separator of line 17: a space, the character U+203A and a space
Separator == " > "

RECURSIVE JoinWith(_, _)
\* names.join(sep)
JoinWith(names, sep) ==
  IF names = <<>> THEN <<>>
  ELSE IF Len(names) = 1 THEN <<names[1]>>
  ELSE <<names[1], sep>> \o JoinWith(Tail(names), sep)

Pop(stack) == SubSeq(stack, 1, Len(stack) - 1)

SuiteInit ==
  /\ DispatcherIdle
  /\ call = NoCall
  /\ ret = <<>>
  /\ h = [lang |-> "api", suiteStack |-> <<>>, tests |-> <<>>, frames |-> <<>>,
          thrown |-> FALSE, caught |-> FALSE, exit |-> <<>>, loaded |-> FALSE]

Registering == h.lang = "api" /\ ~h.loaded /\ ~h.thrown

\* describe(name, fn) is called: suiteStack.push(name), then fn() begins
Describe ==
  /\ Registering
  /\ Len(h.frames) < MaxNesting
  /\ \E name \in SuiteNames :
       h' = [h EXCEPT !.suiteStack = Append(@, name),
                      !.frames = Append(@, [name |-> name, before |-> h.suiteStack])]
  /\ HarnessVarsOnly

\* test(name, fn), or it(name, fn)
Test ==
  /\ Registering
  /\ Len(h.tests) < MaxTests
  /\ \E name \in TestNames :
       h' = [h EXCEPT !.tests =
               Append(@, [name |-> JoinWith(Append(h.suiteStack, name), Separator),
                          suites |-> [k \in 1..Len(h.frames) |-> h.frames[k].name],
                          own |-> name, afterCatch |-> h.caught])]
  /\ HarnessVarsOnly

\* a describe whose pop is skipped when the callback throws
DescribeThrowsNoFinally ==
  /\ h.lang = "api" /\ ~h.loaded
  /\ h.frames # <<>>
  /\ h' = [h EXCEPT !.frames = Pop(@), !.thrown = TRUE,
                    !.exit = <<[before |-> h.frames[Len(h.frames)].before,
                                after |-> h.suiteStack]>>]
  /\ HarnessVarsOnly

\* the callback of the innermost describe throws, or lets an exception
\* through: finally { suiteStack.pop(); } and the exception goes on
DescribeThrows ==
  /\ h.lang = "api" /\ ~h.loaded
  /\ h.frames # <<>>
  /\ h' = [h EXCEPT !.suiteStack = Pop(@), !.frames = Pop(@), !.thrown = TRUE,
                    !.exit = <<[before |-> h.frames[Len(h.frames)].before,
                                after |-> Pop(h.suiteStack)]>>]
  /\ HarnessVarsOnly

\* the callback of the innermost describe returns: finally { suiteStack.pop(); }
DescribeReturns ==
  /\ Registering
  /\ h.frames # <<>>
  /\ h' = [h EXCEPT !.suiteStack = Pop(@), !.frames = Pop(@),
                    !.exit = <<[before |-> h.frames[Len(h.frames)].before,
                                after |-> Pop(h.suiteStack)]>>]
  /\ HarnessVarsOnly

\* the tests text catches the exception around the describe call it made
TextCatches ==
  /\ h.lang = "api" /\ ~h.loaded
  /\ h.thrown
  /\ h' = [h EXCEPT !.thrown = FALSE, !.caught = TRUE]
  /\ HarnessVarsOnly

\* evalCJS('/js/tests.js', ...) ends: the text returns, or the exception
\* leaves it
TextEnds ==
  /\ h.lang = "api" /\ ~h.loaded
  /\ h.frames = <<>>
  /\ h' = [h EXCEPT !.loaded = TRUE]
  /\ HarnessVarsOnly

SuiteNext ==
  \/ Describe
  \/ Test
  \/ DescribeThrows
  \/ DescribeReturns
  \/ TextCatches
  \/ TextEnds

SuiteSpec == SuiteInit /\ [][SuiteNext]_vars

\* ------------------------------------------- index.ts: disableNetworkInWorker
\* Every execution context has a global object of its own: the caller's page
\* and each unit.  A networking primitive of a context is the one of the
\* platform ("native") or the function that lockdown put in its place
\* ("deny").
NetPrims == {"fetch", "XMLHttpRequest", "WebSocket", "EventSource"}
NetUnits == {"unit1", "unit2"}
Contexts == {"caller"} \cup NetUnits
MaxLockdowns == 2

LockdownInit ==
  /\ DispatcherIdle
  /\ call = NoCall
  /\ ret = <<>>
  /\ h = [lang |-> "net",
          env |-> [c \in Contexts |-> [p \in NetPrims |-> "native"]],
          alive |-> [c \in Contexts |-> TRUE],
          applied |-> [c \in Contexts |-> 0],
          last |-> <<>>]

\* const deny = () => { throw ... }; globalThis.fetch = deny; and the three
\* constructors replaced by functions that throw
Denied(globals) == [p \in NetPrims |-> "deny"]

\* a lockdown that writes to state shared by every context
disableNetworkAmbient(u) ==
  /\ h.lang = "net" /\ h.alive[u]
  /\ h.applied[u] < MaxLockdowns
  /\ h' = [h EXCEPT !.env = [c \in Contexts |-> Denied(h.env[c])],
                    !.applied[u] = @ + 1]
  /\ HarnessVarsOnly

\* disableNetworkInWorker(), called by the runner of unit u: globalThis is
\* the global object of that unit
disableNetworkInWorker(u) ==
  /\ h.lang = "net" /\ h.alive[u]
  /\ h.applied[u] < MaxLockdowns
  /\ h' = [h EXCEPT !.env[u] = Denied(@),
                    !.applied[u] = @ + 1]
  /\ HarnessVarsOnly

\* text running in context c calls fetch or constructs one of the three
\* classes: the function bound to the name runs
NetUse(c, p) ==
  /\ h.lang = "net" /\ h.alive[c]
  /\ h' = [h EXCEPT !.last =
             <<[ctx |-> c, prim |-> p, locked |-> h.applied[c] > 0,
                outcome |-> IF h.env[c][p] = "deny" THEN "throws" ELSE "request"]>>]
  /\ HarnessVarsOnly

\* worker.terminate(): the unit and its global object are gone
NetUnitTerminates(u) ==
  /\ h.lang = "net" /\ h.alive[u]
  /\ h' = [h EXCEPT !.alive[u] = FALSE]
  /\ HarnessVarsOnly

LockdownNext ==
  \/ \E u \in NetUnits : disableNetworkInWorker(u)
  \/ \E c \in Contexts, p \in NetPrims : NetUse(c, p)
  \/ \E u \in NetUnits : NetUnitTerminates(u)

LockdownSpec == LockdownInit /\ [][LockdownNext]_vars

\* ------------------------------------------- ReviewItemHooks.ts: useReviewItem
\* The state of the hook that runTests and updateItem write: item, running,
\* the two test results and hasUnsavedChanges.  A call of runTests keeps the
\* item of the render it was made in (snap) across its awaits.  The edited
\* fields of the item are the three texts and the notes.
EditFields == {"solution", "unit_tests", "sota_solution", "notes"}
FieldValues(f) ==
  CASE f = "solution" -> {"s1", "s2"}
    [] f = "unit_tests" -> {"t1", "t2"}
    [] f = "sota_solution" -> {"", "x1"}
    [] OTHER -> {"", "n1"}
MaxRuns == 1

ReviewInit ==
  /\ DispatcherIdle
  /\ call = NoCall
  /\ ret = <<>>
  /\ \E sota \in FieldValues("sota_solution") :
       h = [lang |-> "review",
            item |-> [solution |-> "s1", unit_tests |-> "t1",
                      sota_solution |-> sota, notes |-> "",
                      lastRunSuccessful |-> FALSE, sota_correct |-> FALSE],
            running |-> FALSE, testResultRef |-> <<>>, testResultSota |-> <<>>,
            hasUnsavedChanges |-> FALSE,
            runs |-> <<>>, lastRun |-> <<>>, op |-> <<"load">>]

RemoveAt(seq, k) == SubSeq(seq, 1, k - 1) \o SubSeq(seq, k + 1, Len(seq))

\* runTests up to its first await: the item of the current render is kept,
\* running is set, both results are cleared, and runAutograder is called for
\* the SOTA solution when there is one, else for the solution
runTests ==
  /\ h.lang = "review"
  /\ Len(h.runs) < MaxRuns
  /\ h' = [h EXCEPT
            !.running = TRUE, !.testResultRef = <<>>, !.testResultSota = <<>>,
            !.runs = Append(@, [snap |-> h.item,
                                pc |-> IF h.item.sota_solution # "" THEN "sota" ELSE "ref",
                                sotaRes |-> <<>>, edited |-> {}]),
            !.op = <<"runTests">>]
  /\ HarnessVarsOnly

\* sotaRes = await runAutograder({ solution: item.sota_solution, ... }) returns
SotaRunReturns(k) ==
  /\ h.lang = "review" /\ k \in 1..Len(h.runs)
  /\ h.runs[k].pc = "sota"
  /\ \E ok \in BOOLEAN :
       h' = [h EXCEPT !.runs[k].sotaRes = <<ok>>, !.runs[k].pc = "ref",
                      !.testResultSota = <<ok>>, !.op = <<"sotaReturns">>]
  /\ HarnessVarsOnly

\* the item a finished run writes: its own copy with the two flags set
updatedItem(run, ok) ==
  [run.snap EXCEPT !.lastRunSuccessful = ok,
                   !.sota_correct = IF run.sotaRes # <<>> THEN run.sotaRes[1] ELSE @]

\* refRes = await runAutograder({ solution: item.solution, ... }) returns:
\* setTestResultRef, setItem(updatedItem), setHasUnsavedChanges(true),
\* setRunning(false)
RefRunReturns(k) ==
  /\ h.lang = "review" /\ k \in 1..Len(h.runs)
  /\ h.runs[k].pc = "ref"
  /\ \E ok \in BOOLEAN :
       h' = [h EXCEPT
              !.testResultRef = <<ok>>,
              !.item = updatedItem(h.runs[k], ok),
              !.hasUnsavedChanges = TRUE,
              !.running = FALSE,
              !.runs = RemoveAt(@, k),
              !.lastRun = <<[solution |-> h.runs[k].snap.solution,
                             unit_tests |-> h.runs[k].snap.unit_tests,
                             success |-> ok]>>,
              !.op = <<"runReturns">>]
  /\ HarnessVarsOnly

\* an update that leaves the two flags alone
updateItemKeepsFlags(f, v) ==
  /\ h.lang = "review"
  /\ h' = [h EXCEPT
            !.item = [@ EXCEPT ![f] = v],
            !.hasUnsavedChanges = TRUE,
            !.runs = [k \in 1..Len(h.runs) |->
                        [h.runs[k] EXCEPT !.edited = @ \cup {f}]],
            !.op = <<"updateItem", f>>]
  /\ HarnessVarsOnly

\* updateItem({ [f]: v }): setItem(prev => ({ ...prev, ...newUpdates })) with
\* the flags reset that the field calls for; setHasUnsavedChanges(true)
updateItem(f, v) ==
  /\ h.lang = "review"
  /\ h' = [h EXCEPT
            !.item = [@ EXCEPT
                        ![f] = v,
                        !.lastRunSuccessful =
                          IF f \in {"solution", "unit_tests"} THEN FALSE ELSE @,
                        !.sota_correct =
                          IF f \in {"sota_solution", "unit_tests"} THEN FALSE ELSE @],
            !.hasUnsavedChanges = TRUE,
            !.runs = [k \in 1..Len(h.runs) |->
                        [h.runs[k] EXCEPT !.edited = @ \cup {f}]],
            !.op = <<"updateItem", f>>]
  /\ HarnessVarsOnly

ReviewNext ==
  \/ runTests
  \/ \E k \in 1..MaxRuns : SotaRunReturns(k)
  \/ \E k \in 1..MaxRuns : RefRunReturns(k)
  \/ \E f \in EditFields : \E v \in FieldValues(f) : updateItem(f, v)

ReviewSpec == ReviewInit /\ [][ReviewNext]_vars

\* ---------------------------------------------------------------- the claims
UnitOf(c) == units[worker[c]]
ChanOf(c) == chan[worker[c]]
Dispatched(c) == worker[c] # 0
Fulfilled(c) == promise[c].state = "fulfilled"
Value(c) == promise[c].value[1]

IsRunResult(r) ==
  /\ DOMAIN r = {"success", "output", "error", "timeout"}
  /\ r.success \in BOOLEAN
  /\ r.timeout \in BOOLEAN
  /\ r.error \in ErrorKind \cup {Null}

\* every RunResult held anywhere in the system
AllResults ==
  UNION { { promise[c].value[i] : i \in 1..Len(promise[c].value) } : c \in Calls }
  \cup UNION { { units[u].payload[i] : i \in 1..Len(units[u].payload) } : u \in UnitIds }
  \cup UNION { { units[u].sent[i] : i \in 1..Len(units[u].sent) } : u \in UnitIds }
  \cup UNION { { chan[u].out[i].payload : i \in 1..Len(chan[u].out) } : u \in UnitIds }

\* C1: whatever the interleaving of the unit's result message, its error
\* event and the outer timer, the promise of a dispatched call is settled at
\* most once, never rejected, with one RunResult that later resolve calls
\* leave untouched, and the unit is terminated whenever the promise is settled.
C1_SettledOnceUnitTerminated ==
  /\ [](\A c \in Calls :
        /\ Dispatched(c) => promise[c].state # "rejected"
        /\ Fulfilled(c) => Len(promise[c].value) = 1 /\ IsRunResult(Value(c))
        /\ (Fulfilled(c) /\ Dispatched(c)) => UnitOf(c).terminated)
  /\ [][\A c \in Calls :
          promise[c].state # "pending" =>
            /\ promise'[c].state = promise[c].state
            /\ promise'[c].value = promise[c].value]_vars

\* C1 witness: two handlers both called resolve on the same promise
C1_Witness ==
  \E c \in Calls : Fulfilled(c) /\ Dispatched(c) /\ promise[c].attempts >= 2

\* C2: once the outer timer has fired the unit is terminated and the call's
\* result is the timeout result, whatever the unit was doing; from then on the
\* unit takes no step and nothing it had sent changes the result.
C2_TimeoutDominates ==
  /\ [](\A c \in Calls :
        timer[c] = "fired" =>
          /\ UnitOf(c).terminated
          /\ Fulfilled(c)
          /\ Value(c) = OuterTimeoutResult
          /\ ~Value(c).success /\ Value(c).error = "timeout" /\ Value(c).timeout)
  /\ [][\A c \in Calls :
          timer[c] = "fired" =>
            /\ units'[worker[c]] = units[worker[c]]
            /\ promise'[c].value = promise[c].value]_vars

\* C2 witness: the timer fired while the unit was executing the caller's text
C2_Witness ==
  \E c \in Calls : timer[c] = "fired" /\ UnitOf(c).stage = "user"

\* C3: a call whose unit was created eventually hands a RunResult to its
\* caller, whether the unit answers, hangs, crashes or exits.
C3_EventuallyReturns ==
  Dispatched(1) ~> (Fulfilled(1) /\ IsRunResult(Value(1)))

\* C3 witness: the call returned although its unit never posted anything
C3_Witness ==
  /\ Dispatched(1) /\ Fulfilled(1)
  /\ UnitOf(1).sent = <<>>
  /\ UnitOf(1).stage \in {"idle", "user", "exited"}

\* C4: no call ends with a rejected promise.
C4_NeverRejects ==
  \A c \in Calls : promise[c].state # "rejected"

\* C5: when the unit's fault reaches the dispatcher before any result was
\* posted and before the timer fired, the unit is terminated and the call
\* returns runtime_error, in every variant.
C5_FaultIsRuntimeError ==
  \A c \in Calls :
    (/\ Dispatched(c)
     /\ ChanOf(c).err = "delivered"
     /\ UnitOf(c).sent = <<>>
     /\ timer[c] # "fired")
    => /\ Fulfilled(c)
       /\ ~Value(c).success
       /\ Value(c).error = "runtime_error"
       /\ UnitOf(c).terminated

\* C6: when the result message is handled before the timer fires (and before
\* a fault of the unit was handled), the timer is cancelled, the unit is
\* terminated and the call's result is the posted payload, unchanged; the timer
\* stays cancelled and the result stays what it is.
C6_ResultRelayedUnchanged ==
  /\ [](\A c \in Calls :
        (/\ Dispatched(c)
         /\ UnitOf(c).sent # <<>>
         /\ ChanOf(c).out = <<>>
         /\ timer[c] # "fired"
         /\ promise[c].by # "error")
        => /\ Fulfilled(c)
           /\ promise[c].by = "message"
           /\ promise[c].value = UnitOf(c).sent
           /\ timer[c] = "cleared"
           /\ UnitOf(c).terminated)
  /\ [][\A c \in Calls :
          promise[c].by = "message" =>
            /\ timer'[c] = timer[c]
            /\ promise'[c].value = promise[c].value]_vars

\* C6 witness: a successful payload was relayed and the timer is cancelled
C6_Witness ==
  \E c \in Calls :
    /\ promise[c].by = "message"
    /\ Value(c).success
    /\ timer[c] = "cleared"

\* C7: every RunResult has success = true exactly when error is null and
\* timeout is false.
C7_SuccessIffNoError ==
  \A r \in AllResults : r.success <=> (r.error = Null /\ ~r.timeout)

\* C7 witness: results of the detector, of a harness, of the timer and of the
\* fault handler are all present
C7_Witness ==
  /\ \E c \in Calls : promise[c].by \in {"timer", "error", "detect"}
  /\ \E c \in Calls : promise[c].by = "message" /\ Value(c).success

\* C8: every RunResult with timeout = true has error = 'timeout', and its
\* error is one kind of the closed set or null.
C8_TimeoutImpliesTimeoutError ==
  \A r \in AllResults :
    /\ r.timeout => r.error = "timeout"
    /\ r.error \in ErrorKind \cup {Null}

\* C8 witness: a harness's own timeout result and the dispatcher's are present
C8_Witness ==
  /\ \E c \in Calls : promise[c].by = "message" /\ Value(c).timeout
  /\ \E c \in Calls : promise[c].by = "timer"

\* C9: in the JS runner, the Python runner and the server-hosted runner the
\* caller's text only executes with networking locked down, and lockdown is
\* never applied before the runtime bootstrap.
C9_LockdownBeforeUserCode ==
  \A u \in UnitIds :
    units[u].kind \in {"js-runner", "python-runner", "serverless-runner"} =>
      /\ units[u].stage = "user" => units[u].netOff
      /\ units[u].netOff => units[u].stage \notin {"idle", "boot"}

\* C10: every dispatched call holds a unit of its own, which is sent exactly
\* one 'run' message; no unit is held by two calls, a call keeps its unit, and
\* a step changes the state of at most one unit.
C10_OneFreshUnitPerCall ==
  /\ [](/\ \A c \in Calls : (pc[c] = "dispatched") <=> Dispatched(c)
        /\ \A c, d \in Calls : (c # d /\ Dispatched(c)) => worker[c] # worker[d]
        /\ created = Cardinality({c \in Calls : Dispatched(c)})
        /\ \A c \in Calls : Dispatched(c) =>
              UnitOf(c).got + Len(UnitOf(c).inbox) = 1
        /\ \A u \in UnitIds : units[u].got <= 1)
  /\ [][/\ \A c \in Calls : Dispatched(c) => worker'[c] = worker[c]
        /\ \A u, v \in UnitIds :
              u # v => (units'[u] = units[u] /\ chan'[u] = chan[u])
                       \/ (units'[v] = units[v] /\ chan'[v] = chan[v])]_vars

\* C10 witness: the identical request was run twice, in two units that each
\* received it
C10_Witness ==
  \E c, d \in Calls :
    /\ c # d
    /\ Dispatched(c) /\ Dispatched(d)
    /\ req[c] = req[d] /\ variant[c] = variant[d]
    /\ UnitOf(c).got = 1 /\ UnitOf(d).got = 1

\* C11: a unit left to run posts exactly one {type:'result', payload} for
\* each 'run' message it takes, whether the harness returned or threw (the
\* payload of a throw is success=false, error='runtime_error',
\* timeout=false); taking a message of another kind posts nothing and starts
\* nothing.
C11_OneReplyPerRun ==
  /\ [](/\ Len(chan[1].out) <= units[1].got
        /\ units[1].stage \in {"idle", "done"} => Len(chan[1].out) = units[1].got
        /\ \A i \in 1..Len(chan[1].out) :
              /\ DOMAIN chan[1].out[i] = {"type", "payload"}
              /\ chan[1].out[i].type = "result"
              /\ IsRunResult(chan[1].out[i].payload)
        /\ \A r \in {units[1].payload, IF units[1].stage = "done" THEN units[1].sent ELSE <<>>} :
              (units[1].caught /\ r # <<>>) =>
                /\ ~r[1].success
                /\ r[1].error = "runtime_error"
                /\ ~r[1].timeout)
  /\ [][(units[1].inbox # <<>> /\ Head(units[1].inbox).kind # "run"
           /\ units'[1].inbox # units[1].inbox)
          => /\ chan' = chan
             /\ units' = [units EXCEPT ![1].inbox = Tail(@)]]_vars
  /\ \A n \in 1..MaxInbox : (units[1].got = n) ~> (Len(chan[1].out) = n)

\* C11 witness: the harness threw, the runner posted its one reply for the
\* second of two 'run' messages and the inbox is empty
C11_Witness ==
  /\ units[1].caught
  /\ units[1].stage = "done"
  /\ units[1].got = 2
  /\ Len(chan[1].out) = 2
  /\ units[1].inbox = <<>>

\* what the unit of a dispatched, settled call did, as its dispatcher saw it
\* before the deadline: it posted a result that was handled first, it faulted
\* before posting and the error event was delivered first, or it stayed
\* silent until the timer fired
UnitBehaviour(c) ==
  CASE UnitOf(c).sent # <<>> /\ promise[c].by = "message" ->
         [kind |-> "posts", what |-> UnitOf(c).sent]
    [] UnitOf(c).sent = <<>> /\ ChanOf(c).err = "delivered"
         /\ (variant[c] = "serverless" => promise[c].by = "error") ->
         [kind |-> "faults", what |-> <<>>]
    [] UnitOf(c).sent = <<>> /\ ChanOf(c).err = "none" /\ timer[c] = "fired" ->
         [kind |-> "silent", what |-> <<>>]
    [] OTHER -> [kind |-> "other", what |-> <<>>]

\* C12: a call to runAutograder and a call to runInServerless that were given
\* the same request and whose units behaved the same way (posted the same
\* result, faulted before posting, or never answered) return the same
\* RunResult, and both units are terminated.
C12_SameContract ==
  \A c, d \in Calls :
    (/\ variant[c] = "interactive" /\ variant[d] = "serverless"
     /\ req[c] = req[d]
     /\ Dispatched(c) /\ Dispatched(d)
     /\ Fulfilled(c) /\ Fulfilled(d)
     /\ UnitBehaviour(c).kind # "other"
     /\ UnitBehaviour(c) = UnitBehaviour(d))
    => /\ Value(c) = Value(d)
       /\ UnitOf(c).terminated /\ UnitOf(d).terminated

\* a text carries a signal of some language
Resolves(s) ==
  \/ fenceLang(s) # Null
  \/ headerLang(s) # Null
  \/ heuristicLang(s) # Null

\* the language a text resolves to on its own: its fence, else its header,
\* else its keywords
TextLang(s) ==
  IF fenceLang(s) # Null THEN fenceLang(s)
  ELSE IF headerLang(s) # Null THEN headerLang(s)
  ELSE heuristicLang(s)

Returned == call.fn # "none" /\ ret # <<>>

\* C13: for a request whose language field is set, detectLanguage returns
\* that language, whatever the solution and tests texts contain.
C13_GivenLanguageWins ==
  (Returned /\ call.fn = "detectLanguage" /\ call.req.language # Null)
  => /\ ret[1].typeof = "string"
     /\ ret[1].val = call.req.language

\* C13 witness: the field says js while the tests carry a python fence and
\* the solution an ocaml header
C13_Witness ==
  /\ Returned /\ call.fn = "detectLanguage"
  /\ call.req.language = "js"
  /\ fenceLang(call.req.tests) = "python"
  /\ headerLang(call.req.solution) = "ocaml"
  /\ ret[1].val = "js"

\* C14: with no language given, when the tests text resolves to a language
\* by any signal the detector returns that language whatever the solution
\* resolves to; it returns the solution's language only when the tests
\* resolve to none.
C14_TestsWin ==
  (Returned /\ call.fn = "detectLanguage" /\ call.req.language = Null)
  => /\ Resolves(call.req.tests) =>
          /\ ret[1].typeof = "string"
          /\ ret[1].val = TextLang(call.req.tests)
     /\ (ret[1].typeof = "string" /\ ret[1].val # TextLang(call.req.tests)) =>
          /\ ~Resolves(call.req.tests)
          /\ ret[1].val = TextLang(call.req.solution)

\* C14 witness: the tests resolve to python by keywords only, the solution
\* to js by a fence, and python is returned
C14_Witness ==
  /\ Returned /\ call.fn = "detectLanguage"
  /\ call.req.language = Null
  /\ fenceLang(call.req.solution) = "js"
  /\ fenceLang(call.req.tests) = Null /\ headerLang(call.req.tests) = Null
  /\ heuristicLang(call.req.tests) = "python"
  /\ ret[1].val = "python"

\* the request gives no language and neither text resolves to one
Undetectable(r) ==
  r.language = Null /\ ~Resolves(r.solution) /\ ~Resolves(r.tests)

\* C15: a call whose request gives no language and whose texts resolve to
\* none returns success=false, error='bad_language_detection', timeout=false,
\* and it creates no unit, arms no timer and posts no message.
C15_DetectionFailureReturnsEarly ==
  /\ [](\A c \in Calls :
        (req[c] # <<>> /\ Undetectable(req[c][1]))
        => /\ Fulfilled(c)
           /\ IsRunResult(Value(c))
           /\ ~Value(c).success
           /\ Value(c).error = "bad_language_detection"
           /\ ~Value(c).timeout
           /\ worker[c] = 0
           /\ timer[c] = "unset")
  /\ [][\A c \in Calls :
          (req[c] = <<>> /\ req'[c] # <<>> /\ Undetectable(req'[c][1]))
          => /\ units' = units
             /\ chan' = chan
             /\ created' = created]_vars

\* C15 witness: both entrypoints returned the detection failure
C15_Witness ==
  \E c, d \in Calls :
    /\ variant[c] = "interactive" /\ variant[d] = "serverless"
    /\ promise[c].by = "detect" /\ promise[d].by = "detect"
    /\ created = 0

HarnessDone == h.lang # Null /\ h.pc = "done"

\* the harness ran the caller's texts to the end of the test run
RanToCompletion ==
  CASE h.lang = "js" ->
         /\ h.in.solution = "ok" /\ h.in.tests = "ok"
         /\ h.i > Len(h.in.registered)
    [] h.lang = "python" ->
         /\ h.in.import = "ok" /\ h.in.tests = "ran"
         /\ \E k \in 1..Len(h.phases) : h.phases[k] = "run"
    [] h.lang = "ocaml" ->
         /\ h.step = OcamlSteps
         /\ h.in.run \in {"passed", "failed"}
    [] OTHER -> FALSE

\* at least one test of the run failed
SomeTestFailed ==
  CASE h.lang = "js" ->
         \E k \in 1..Len(h.in.registered) : h.in.registered[k] \in {"throw", "reject"}
    [] h.lang = "python" -> h.in.failures + h.in.errors > 0
    [] h.lang = "ocaml" -> h.in.run = "failed"
    [] OTHER -> FALSE

\* C16: in each of the three harnesses a result with error='tests_failed' is
\* returned only for a run that went to completion and in which at least one
\* test failed; a run that did not execute to the end, or whose report is
\* missing or unparsable, is never given tests_failed.
C16_TestsFailedOnlyWhenTestsFailed ==
  (HarnessDone /\ h.result[1].error = "tests_failed")
  => /\ RanToCompletion
     /\ SomeTestFailed

\* C17: the JS harness returns success with error null exactly when both
\* texts load, the run's timeout did not occur and no registered test throws
\* or rejects; when a registered test throws or rejects and the timeout did
\* not occur it returns success=false with error='tests_failed'.
C17_JsSuccessIffAllPass ==
  (HarnessDone /\ h.lang = "js")
  => LET loaded == h.in.solution = "ok" /\ h.in.tests = "ok"
         failing == \E k \in 1..Len(h.in.registered) :
                      h.in.registered[k] \in {"throw", "reject"}
     IN  /\ (h.result[1].success /\ h.result[1].error = Null)
               <=> (loaded /\ ~h.timedOut /\ ~failing)
         /\ h.result[1].success => h.result[1].error = Null
         /\ (loaded /\ ~h.timedOut /\ failing)
               => /\ ~h.result[1].success
                  /\ h.result[1].error = "tests_failed"

\* C17 witness: the run of JS_SOLUTION_OK with JS_TESTS_FAIL has ended with
\* tests_failed
C17_Witness ==
  /\ HarnessDone /\ h.lang = "js"
  /\ h.in = JsFixtureFail
  /\ ~h.timedOut
  /\ ~h.result[1].success
  /\ h.result[1].error = "tests_failed"

\* C18: in the Python harness, once the import of the solution has failed
\* with a syntax error the driver starts neither discovery nor the test run,
\* and the result (when the run did not time out) has error='compile_error'.
C18_SyntaxErrorIsCompileError ==
  (/\ h.lang = "python"
   /\ h.in.import = "SyntaxError"
   /\ \E k \in 1..Len(h.phases) : h.phases[k] = "import")
  => /\ \A k \in 1..Len(h.phases) : h.phases[k] \notin {"discover", "run", "report"}
     /\ h.pc \notin {"discover", "report"}
     /\ (h.pc = "done" /\ ~h.result[1].timeout) =>
          /\ ~h.result[1].success
          /\ h.result[1].error = "compile_error"

\* C18 witness: the import failed with a syntax error and compile_error was
\* returned
C18_Witness ==
  /\ h.lang = "python" /\ h.pc = "done"
  /\ h.in.import = "SyntaxError"
  /\ h.phases = <<"import">>
  /\ h.result[1].error = "compile_error"

\* C19: deepEqual(x, x) is true for every value x (NaN, and objects and
\* arrays that hold references to themselves, included), and the call
\* returns without a nested call.
C19_ReflexiveWithoutRecursion ==
  (Returned /\ call.fn = "deepEqual" /\ call.a = call.b)
  => /\ ~ret[1].threw
     /\ ret[1].value
     /\ ret[1].calls = 1

\* C19 witness: x is an array or an object one of whose values is x itself
C19_Witness ==
  /\ Returned /\ call.fn = "deepEqual"
  /\ call.a = call.b
  /\ call.a \in Refs
  /\ \E i \in 1..Len(call.heap[call.a.v].vals) : call.heap[call.a.v].vals[i] = call.a
  /\ ret[1].value

KeySet(obj) == { obj.keys[i] : i \in 1..Len(obj.keys) }

\* C20: two plain objects are deep-equal exactly when they have the same set
\* of own keys and the values under each key are deep-equal, whatever the
\* order in which the keys of either were inserted.
C20_KeyOrderIndependent ==
  (/\ Returned /\ call.fn = "deepEqual"
   /\ call.a \in Refs /\ call.b \in Refs
   /\ call.heap[call.a.v].class = "Object"
   /\ call.heap[call.b.v].class = "Object")
  => LET oa == call.heap[call.a.v]
         ob == call.heap[call.b.v]
     IN  /\ ~ret[1].threw
         /\ ret[1].value <=>
              /\ KeySet(oa) = KeySet(ob)
              /\ \A k \in KeySet(oa) :
                    deepEqual(call.heap, GetValue(oa, k), GetValue(ob, k)).value

\* C20 witness: two distinct objects with the same two keys inserted in
\* opposite orders are found equal
C20_Witness ==
  /\ Returned /\ call.fn = "deepEqual"
  /\ call.a \in Refs /\ call.b \in Refs /\ call.a # call.b
  /\ call.heap[call.a.v].class = "Object"
  /\ call.heap[call.b.v].class = "Object"
  /\ call.heap[call.a.v].keys = <<"a", "b">>
  /\ call.heap[call.b.v].keys = <<"b", "a">>
  /\ ret[1].value

\* C21: two arrays are deep-equal exactly when they have the same length and
\* the elements at each index are deep-equal, and an array is never
\* deep-equal to an object that is not an array.
C21_ArraysPositional ==
  (/\ Returned /\ call.fn = "deepEqual"
   /\ call.a \in Refs /\ call.b \in Refs /\ call.a # call.b
   /\ "Array" \in {call.heap[call.a.v].class, call.heap[call.b.v].class})
  => LET oa == call.heap[call.a.v]
         ob == call.heap[call.b.v]
     IN  /\ ~ret[1].threw
         /\ ret[1].value <=>
              /\ oa.class = "Array" /\ ob.class = "Array"
              /\ Len(oa.vals) = Len(ob.vals)
              /\ \A i \in 1..Len(oa.vals) :
                    deepEqual(call.heap, oa.vals[i], ob.vals[i]).value

\* C21 witness: [1, 2] against [2, 1] is unequal
C21_Witness ==
  /\ Returned /\ call.fn = "deepEqual"
  /\ call.a \in Refs /\ call.b \in Refs
  /\ call.heap[call.a.v].class = "Array"
  /\ call.heap[call.b.v].class = "Array"
  /\ call.heap[call.a.v].vals = <<Prim("number", "1"), Prim("number", "2")>>
  /\ call.heap[call.b.v].vals = <<Prim("number", "2"), Prim("number", "1")>>
  /\ ~ret[1].value

\* C25: deepEqual returns a boolean for every pair of finite object graphs,
\* graphs with reference cycles of different shapes included: the call never
\* ends by exhausting the stack.
C25_ReturnsBoolean ==
  (Returned /\ call.fn = "deepEqual") => ~ret[1].threw

\* C22: clearCommentsAndDocstrings returns the empty string for the empty
\* string and for every input made of spaces and newlines only.
C22_BlankGivesEmpty ==
  (Returned /\ call.fn = "clearCommentsAndDocstrings" /\ IsBlank(call.code))
  => ret[1] = Cleaned(<<>>)

\* C23: clearCommentsAndDocstrings called with language 'javascript' gives
\* what the JavaScript cleaner gives: the comments outside literals are
\* removed.
C23_RoutesToJsCleaner ==
  (/\ Returned /\ call.fn = "clearCommentsAndDocstrings"
   /\ call.language = "javascript"
   /\ ~IsBlank(call.code)
   /\ ~clearJsComments(call.code).threw)
  => ret[1] = clearJsComments(call.code)

\* code is one string literal on one line: it opens and closes with the
\* quote q and no quote inside it is left unescaped
StringLiteral(code, q) ==
  /\ Len(code) >= 2
  /\ code[1] = q /\ code[Len(code)] = q
  /\ Backslashes(code, Len(code) - 1) % 2 = 0
  /\ \A k \in 2..(Len(code) - 1) :
       /\ code[k] # "\n"
       /\ code[k] = q => Backslashes(code, k - 1) % 2 = 1

HasCommentLike(code) ==
  \E k \in 1..(Len(code) - 1) : code[k] = "/" /\ code[k + 1] \in {"/", "*"}

\* C24: clearJsComments leaves a single-quoted, double-quoted or template
\* literal as it is, comment-like sequences and escaped quotes inside it
\* included.
C24_LiteralsKept ==
  (/\ Returned /\ call.fn = "clearJsComments"
   /\ \E q \in {"\"", "'", Backtick} : StringLiteral(call.code, q)
   /\ HasCommentLike(call.code))
  => ret[1] = Cleaned(call.code)

\* the text whose signals decide: the tests when they resolve, else the
\* solution
Deciding == IF Resolves(call.req.tests) THEN call.req.tests ELSE call.req.solution

\* C26: within the text that decides, a fence tag that maps to a language
\* wins over the LANG: header, which wins over the keyword heuristic; a
\* signal is used only when every signal above it yields no language.
C26_SignalPriority ==
  (Returned /\ call.fn = "detectLanguage" /\ call.req.language = Null
     /\ Resolves(Deciding))
  => /\ ret[1].typeof = "string"
     /\ fenceLang(Deciding) # Null => ret[1].val = fenceLang(Deciding)
     /\ (fenceLang(Deciding) = Null /\ headerLang(Deciding) # Null)
          => ret[1].val = headerLang(Deciding)
     /\ (fenceLang(Deciding) = Null /\ headerLang(Deciding) = Null)
          => ret[1].val = heuristicLang(Deciding)

\* C26 witness: the tests carry a python fence, a js header and ocaml
\* keywords, and python is returned
C26_Witness ==
  /\ Returned /\ call.fn = "detectLanguage"
  /\ call.req.language = Null
  /\ call.req.tests = [fence |-> "py", header |-> "js", heur |-> {"ocaml"}]
  /\ ret[1] = AsLang("python")

\* the result the JS harness returns when the run timed out
JsTimeoutResult == <<resultFail("notice", "timeout", TRUE)>>

\* C27: once timeoutMs have passed since test execution began, the loop of
\* the JS harness starts no further test: its next step is to return the
\* timeout result.
C27_TimeoutAbortsRun ==
  [][(h.lang = "js" /\ h.pc = "loop" /\ h.now >= TimeoutTicks)
       => (h'.pc = "done" /\ h'.result = JsTimeoutResult)]_vars

\* C28: the JS harness returns its result no later than timeoutMs after test
\* execution began.
C28_ReturnsWithinBudget ==
  (h.lang = "js" /\ h.pc = "done" /\ h.timer # "unset") => h.now <= TimeoutTicks

\* the load that ended the setup of a JS run: the solution's when it threw,
\* else the tests'
FailedLoad == IF h.in.solution # "ok" THEN h.in.solution ELSE h.in.tests

\* C29: a JS run whose load throws ends compile_error for a syntax error or
\* a require of any name but the solution module, and runtime_error for any
\* other exception; a run whose loads succeed ends with neither.
C29_LoadErrorClasses ==
  (h.lang = "js" /\ h.pc = "done")
  => /\ FailedLoad \in {"SyntaxError", "unknown-require", "requires-tests"}
          => h.result[1].error = "compile_error"
     /\ FailedLoad = "throws" => h.result[1].error = "runtime_error"
     /\ FailedLoad = "ok" => h.result[1].error \notin {"compile_error", "runtime_error"}

\* D1, ..., Dn and the test's own name with the separator between them
Flattened(suites, own) ==
  LET names == Append(suites, own)
  IN  [k \in 1..(2 * Len(names) - 1) |->
         IF k % 2 = 1 THEN names[(k + 1) \div 2] ELSE Separator]

\* C30: a test registered inside the describe calls D1..Dn in progress is
\* named D1, ..., Dn and its own name joined by the separator, and when a describe call returns or throws
\* the suite stack is what it was before the call.
C30_FlattenedNamesAndStack ==
  h.lang = "api"
  => /\ \A k \in 1..Len(h.tests) :
          h.tests[k].name = Flattened(h.tests[k].suites, h.tests[k].own)
     /\ h.exit # <<>> => h.exit[1].after = h.exit[1].before

\* C30 witness: a describe nested in another threw, the exception was
\* caught, and a test registered after that sits under two suites
C30_Witness ==
  /\ h.lang = "api" /\ h.loaded
  /\ Len(h.tests) = 2
  /\ h.tests[1].suites = <<"A">>
  /\ h.tests[2].afterCatch
  /\ h.tests[2].name = <<"A", " > ", "B", " > ", "t">>

\* the sub-steps of the OCaml harness that have returned an exit code
OcamlExited == IF h.lang = "ocaml" THEN Len(h.exits) ELSE 0

\* C31: the OCaml harness runs compile-solution, compile-tests, link and run
\* in that order; a step is started only if every earlier step exited with
\* code 0; the first non-zero exit among the first three steps gives
\* error='compile_error' with that step's diagnostic text, and no later step
\* is run.
C31_StepsInOrderStopAtFirstFailure ==
  h.lang = "ocaml"
  => /\ Len(h.started) <= OcamlSteps
     /\ \A k \in 1..Len(h.started) :
          /\ h.started[k] = k
          /\ \A j \in 1..(k - 1) : j <= Len(h.exits) /\ h.exits[j] = "zero"
     /\ \A k \in 1..Len(h.exits) :
          (k < OcamlSteps /\ h.exits[k] = "nonzero")
          => /\ h.pc = "done"
             /\ h.result = <<resultFail("diag", "compile_error", FALSE)>>
             /\ h.diag = k
             /\ Len(h.started) = k

\* C31 witness: the solution compiled, the tests did not, and the run ended
\* with compile_error after two steps
C31_Witness ==
  /\ h.lang = "ocaml" /\ h.pc = "done"
  /\ h.exits = <<"zero", "nonzero">>
  /\ h.started = <<1, 2>>
  /\ h.diag = 2
  /\ h.result[1].error = "compile_error"

\* C32: once step 4 has exited, the OCaml harness returns success exactly
\* when the parsed failures and errors are both zero or, no report shape
\* matching, the exit code is 0; no shape and a non-zero code is
\* runtime_error; every other result without success is tests_failed.
C32_OcamlSuccessIffZeroCounts ==
  OcamlExited = OcamlSteps
  => LET parsed == parseOUnitSummary(h.in)
         code0 == h.exits[OcamlSteps] = "zero"
         r == h.result[1]
     IN  /\ h.pc = "done"
         /\ r.success <=> \/ /\ parsed # <<>>
                             /\ parsed[1].failures = 0 /\ parsed[1].errors = 0
                          \/ parsed = <<>> /\ code0
         /\ (parsed = <<>> /\ ~code0) => r.error = "runtime_error"
         /\ (~r.success /\ ~(parsed = <<>> /\ ~code0)) => r.error = "tests_failed"

\* C32 witness: the executable printed a FAILED line with one failure and the
\* harness returned tests_failed
C32_Witness ==
  /\ OcamlExited = OcamlSteps
  /\ h.in.run = "failed" /\ h.in.shapes = {"FAILED"}
  /\ h.in.failures = 1 /\ h.in.errors = 0
  /\ h.result = <<resultFail("report", "tests_failed", FALSE)>>

\* C33: the four OCaml sub-steps share one budget: once their cumulative
\* running time exceeds timeoutMs no sub-step is still running and none is
\* started, and the harness has returned error='timeout' with timeout=true.
C33_OcamlSharedBudget ==
  /\ []((h.lang = "ocaml" /\ h.now > TimeoutTicks)
        => /\ h.pc = "done"
           /\ h.result = <<resultFail("notice", "timeout", TRUE)>>)
  /\ [][(h.lang = "ocaml" /\ Len(h'.started) > Len(h.started))
        => h.now <= TimeoutTicks]_vars

\* C37: the OCaml harness never returns success when the test executable of
\* step 4 exited with a code that is not 0, whatever it printed.
C37_NoSuccessOnNonZeroExit ==
  (OcamlExited = OcamlSteps /\ h.exits[OcamlSteps] = "nonzero")
  => ~h.result[1].success

\* the Python driver finished and the race was not lost to a timer
PyFinishedInTime ==
  /\ h.lang = "python" /\ h.pc = "done"
  /\ h.exec = "resolved" /\ ~h.didTimeout

\* C34: in the Python harness, when the report sentinels are found and the
\* JSON between them parses to a report, the result is success exactly when
\* failures = 0 and errors = 0 and is tests_failed otherwise; in both cases
\* the output is the report's text ending with a newline.
C34_PyReportDecides ==
  (/\ PyFinishedInTime
   /\ PyFirstBlock(h.out) # <<>>
   /\ PyFirstBlock(h.out)[1].k = "report")
  => LET m == PyFirstBlock(h.out)[1]
         r == h.result[1]
     IN  /\ r.success <=> (m.failures = 0 /\ m.errors = 0)
         /\ ~r.success => (r.error = "tests_failed" /\ ~r.timeout)
         /\ r.output = "report"
         /\ h.text # <<>>
         /\ h.text[1] \in {m.text, m.text \o "\n"}
         /\ endsWithNewline(h.text[1])

\* C34 witness: the first report of the output has a text without a final
\* newline, and the harness returned success with that text and a newline
C34_Witness ==
  /\ PyFinishedInTime
  /\ PyFirstBlock(h.out) # <<>>
  /\ PyFirstBlock(h.out)[1].text = FakeText
  /\ h.result[1].success
  /\ h.text = <<"fake\n">>

\* C35: in the Python harness, when the driver finishes without a timeout
\* and the captured output holds no report sentinels, the result is
\* tests_failed if the raw output holds FAILED, Failure or AssertionError and
\* runtime_error otherwise; it is never success.
C35_PyFallbackScansTokens ==
  (PyFinishedInTime /\ PyFirstBlock(h.out) = <<>>)
  => /\ ~h.result[1].success
     /\ h.result[1].error = IF PyTxtHasToken(h.out, h.err)
                            THEN "tests_failed" ELSE "runtime_error"

\* C35 witness: the solution printed a failure token and replaced sys.stdout;
\* the driver finished, no sentinel was captured, tests_failed was returned
C35_Witness ==
  /\ PyFinishedInTime /\ PyFirstBlock(h.out) = <<>>
  /\ h.in.token /\ h.in.redirects
  /\ \E k \in 1..Len(h.phases) : h.phases[k] = "report"
  /\ h.result[1].error = "tests_failed"

C38_JsGlobalsRemoved ==
  (HarnessDone /\ h.lang = "js") => h.globals = {}

\* C39: in the review hook, an edit applied through updateItem while
\* runTests is awaiting the autograder is still present in the item after
\* runTests completes: the completion of a run leaves every field edited
\* during the run as the edit left it.
C39_EditsSurviveRun ==
  [][(h.lang = "review" /\ Len(h'.runs) < Len(h.runs))
     => \E k \in 1..Len(h.runs) :
          /\ h'.runs = RemoveAt(h.runs, k)
          /\ \A f \in h.runs[k].edited : h'.item[f] = h.item[f]]_vars

\* C40: in the review hook, lastRunSuccessful is true only if the item's
\* solution and unit_tests are the texts of the most recent run and that run
\* returned success; an update that touches solution or unit_tests leaves
\* lastRunSuccessful false, and one that touches sota_solution or unit_tests
\* leaves sota_correct false.
C40_FlagsFollowTexts ==
  h.lang = "review"
  => /\ h.item.lastRunSuccessful =>
          /\ h.lastRun # <<>>
          /\ h.lastRun[1].success
          /\ h.item.solution = h.lastRun[1].solution
          /\ h.item.unit_tests = h.lastRun[1].unit_tests
     /\ (h.op[1] = "updateItem" /\ h.op[2] \in {"solution", "unit_tests"})
          => ~h.item.lastRunSuccessful
     /\ (h.op[1] = "updateItem" /\ h.op[2] \in {"sota_solution", "unit_tests"})
          => ~h.item.sota_correct

\* C40 witness: a run on s1 and t1 succeeded, the solution was then edited,
\* which reset lastRunSuccessful, and sota_correct was kept
C40_Witness ==
  /\ h.lang = "review"
  /\ h.lastRun # <<>> /\ h.lastRun[1].success /\ h.lastRun[1].solution = "s1"
  /\ h.op = <<"updateItem", "solution">>
  /\ h.item.solution = "s2"
  /\ ~h.item.lastRunSuccessful
  /\ h.item.sota_correct

====
